---- MODULE Spec2Model ----
(***************************************************************************)
(* Model of the engine-driving client (src/sgftools/ray.py), the analysis  *)
(* cache with its retry wrapper (src/sgfanalyze.py,                        *)
(* src/analyzetools/analyze.py) and the variation expander.                *)
(*                                                                         *)
(* The engine process is the environment: it answers the commands written  *)
(* to its stdin with lines on stdout and stderr, in any order and at any   *)
(* speed it likes.  Everything else is translated from the source.         *)
(***************************************************************************)
EXTENDS Integers, Sequences, FiniteSets, TLC

(***************************************************************************)
(* Bounds of the model.                                                    *)
(***************************************************************************)
MaxNodes == 2          \* largest nodes_per_variation
MaxVarHist == 1        \* longest History do_variations is called at
MaxRestarts == 1       \* largest RESTART_COUNT (--restarts)
MaxDoCalls == 2        \* do_analyze calls made over the runs of the program
MaxCacheHist == 1      \* longest History a checkpoint is made for
MaxCalls == 1          \* method calls the driver makes on a started handle
MaxRetryCalls == 2     \* the same, for a driver that calls again after a failure
MaxHist == 2           \* longest History replayed by go_to_position
MaxErrLines == 1       \* stderr lines the engine prints for one genmove
SecondsPerSearch == 1  \* the handle's seconds_per_search
PipeCap == 1           \* lines an OS pipe holds before the engine blocks
MaxMoves == 2          \* moves of the game a full run annotates

(***************************************************************************)
(* Program constants.                                                      *)
(***************************************************************************)
timeout == 200         \* ray.py:211
PollBase == 20         \* ray.py:448

Streams == {"stdout", "stderr"}

(***************************************************************************)
(* A line of engine output.  k is what the line matches:                   *)
(*   "ack"     a GTP success line, "= ..."        (contains '=')           *)
(*   "move"    the answer to genmove, "= D4"      (contains '=' and        *)
(*             matches finished_regex)                                     *)
(*   "err"     a GTP failure line, "? ..."                                 *)
(*   "noise"   any other stdout line                                       *)
(*   "update"  a stderr line matching update_regex                         *)
(*   "summary" a stderr line matching stats_regex or bookmove_regex        *)
(* Two fields are bookkeeping of the model, not text of the line:          *)
(*   cur  the line answers the latest write to the engine's stdin          *)
(*   n    the line's position among the lines of its stream that the main  *)
(*        flow has not been handed yet ("noise" lines are not numbered)    *)
(***************************************************************************)
NoLine == [k |-> "", cur |-> FALSE, n |-> 0]    \* the "" readline() returns on Empty

VARIABLES
    p,          \* self.p: "None" or "proc"
    rd,         \* per stream, who runs ReaderThread.loop: "none", "inline"
                \* (the caller of start_reader_thread), "bg" (a background
                \* task) or "ended"
    stopped,    \* per stream, ReaderThread.stopped
    pipe,       \* per stream, lines written by the engine and not yet read
    queue,      \* per stream, ReaderThread.queue
    stdin,      \* commands written to the engine and not yet fully answered
    pc,         \* position of the main control flow
    sc,         \* locals of the send_command in progress
    an,         \* locals of the analyze in progress
    last,       \* how the send_command last called ended
    res,        \* how the analyze last called ended
    ncalls,     \* driver calls made so far
    inorder,    \* per stream: every batch of lines handed to the main flow so
                \* far was the oldest lines not yet handed, oldest first
    \* -- the analysis cache --
    RESTART_COUNT,  \* sgfanalyze.RESTART_COUNT
    history,    \* leela.history: the play commands of the current position
    files,      \* the checkpoint directory: file name -> bytes of the file
    cpc,        \* position of the control flow inside wrapped / do_analyze
    cur,        \* the do_analyze call in progress: its arguments, the
                \* wrapper's loop variable i, and what it has done so far
    sent,       \* commands the current attempt has sent to the engine
    result,     \* the locals (stats, move_list) of do_analyze
    out,        \* how the do_analyze call last made ended
    prev,       \* how the call before that one ended
    ndo,        \* do_analyze calls made so far
    \* -- the variation expander --
    va,         \* the arguments of the do_variations call, and rootcolor
    tree,       \* the variation tree: node -> its fields
    leaves,     \* the list of leaves
    vpc,        \* position of the control flow inside do_variations
    vi,         \* the loop variable i of the search loop
    vnode,      \* the node being searched
    rec,        \* what record(tree) did to the game-record cursor
    eng,        \* the engine's own board: the moves played on it since it
                \* was last cleared; what History and the board were when
                \* the turn of the search loop began; do_analyze's `skipped`
    \* -- one call of a function of the handle --
    fx,         \* the call: the function, its arguments and, once it has
                \* run, what it gave
    \* -- the end of the engine process --
    halt        \* the calls of stop() so far and what the latest one did;
                \* whether the process has exited

protoVars == <<p, rd, stopped, pipe, queue, stdin, pc, sc, an, last, res,
               ncalls, inorder>>

cacheVars == <<RESTART_COUNT, history, files, cpc, cur, sent, result, out,
               prev, ndo>>

varVars == <<va, tree, leaves, vpc, vi, vnode, rec, eng>>

vars == <<protoVars, cacheVars, varVars, fx, halt>>

\* a step of one part of the program leaves the other parts alone
Proto(A) == A /\ UNCHANGED <<cacheVars, varVars, fx, halt>>
Cache(A) == A /\ UNCHANGED <<protoVars, varVars, fx, halt>>
Vari(A) == A /\ UNCHANGED <<protoVars, RESTART_COUNT, files, cpc, cur, sent,
                            result, out, prev, ndo, fx, halt>>
Pure(A) == A /\ UNCHANGED <<protoVars, cacheVars, varVars, halt>>
Halt(A) == A /\ UNCHANGED <<cacheVars, varVars, fx>>
Main(A) == A /\ UNCHANGED <<cacheVars, varVars>>

\* no stop() yet, the process (if any) running
HaltNone == [calls |-> 0, was |-> "None", raised |-> "", log |-> <<>>,
             exited |-> FALSE]

(***************************************************************************)
(* ReaderThread.readline / read_all_lines: the queue operations.           *)
(***************************************************************************)
get_nowait_lifo(q) ==
    IF q = <<>> THEN [line |-> NoLine, rest |-> q]
    ELSE [line |-> q[Len(q)], rest |-> SubSeq(q, 1, Len(q) - 1)]

\* queue.get_nowait(), with Empty turned into "" as readline() does
get_nowait(q) ==
    IF q = <<>> THEN [line |-> NoLine, rest |-> q]
    ELSE [line |-> Head(q), rest |-> Tail(q)]

\* read_all_lines(): get_nowait() until Empty.  Lines put while it runs are
\* taken too, so its result is the queue at the moment Empty is raised.
read_all_lines(q) == [lines |-> q, rest |-> <<>>]

\* '=' in s
HasSuccessMark(s) == s.k \in {"ack", "move"}

\* re.search(finished_regex, ''.join(stdout)) is not None
HasFinished(lines) == \E i \in 1..Len(lines) : lines[i].k = "move"

\* re.search(stats_regex, ...) or re.search(bookmove_regex, ...) on stderr
HasSummary(lines) == \E i \in 1..Len(lines) : lines[i].k = "summary"

\* 'visits' in parse_status_update("".join(err)): re.match anchors the
\* pattern at the start of the joined text
HasStatusUpdate(lines) == lines # <<>> /\ lines[1].k = "update"

(***************************************************************************)
(* Bookkeeping of the lines in flight.                                     *)
(***************************************************************************)
\* the numbers of the numbered lines among `lines`
RECURSIVE Nums(_)
Nums(lines) ==
    IF lines = <<>> THEN <<>>
    ELSE (IF Head(lines).k # "noise" THEN <<Head(lines).n>> ELSE <<>>)
         \o Nums(Tail(lines))

Iota(k) == [i \in 1..k |-> i]

\* `lines` once k older lines have been handed to the main flow
Shift(lines, k) ==
    [i \in 1..Len(lines) |->
        IF lines[i].k # "noise" THEN [lines[i] EXCEPT !.n = @ - k] ELSE lines[i]]

\* `seq` once a newer command has been written
Age(seq) == [i \in 1..Len(seq) |-> [seq[i] EXCEPT !.cur = FALSE]]

\* the main flow takes `taken` from the queue of stream s and leaves `rest`
Take(s, taken, rest) ==
    LET k == Len(Nums(taken))
    IN /\ queue' = [queue EXCEPT ![s] = Shift(rest, k)]
       /\ pipe' = [pipe EXCEPT ![s] = Shift(@, k)]
       /\ inorder' = [inorder EXCEPT ![s] = @ /\ Nums(taken) = Iota(k)]

ScNone == [cmd |-> "", expected |-> 0, drain |-> FALSE, tries |-> 0,
           success_count |-> 0, own |-> 0, op |-> "", ret |-> ""]
AnNone == [updated |-> 0, fin |-> FALSE, sum |-> FALSE]
LastNone == [status |-> "none", cmd |-> "", expected |-> 0,
             success_count |-> 0, own |-> 0, tries |-> 0, error |-> ""]

(***************************************************************************)
(* The engine process (environment).                                       *)
(***************************************************************************)
\* a write of `n` GTP commands in one string: the engine prints one answer
\* per command, and nothing for an empty line
Write(name, n) ==
    /\ p = "proc"
    /\ stdin' = IF n = 0 THEN Age(stdin)
                ELSE Append(Age(stdin),
                            [name |-> name, left |-> n, cur |-> TRUE,
                             err |-> IF name = "genmove" THEN MaxErrLines ELSE 0])
    /\ pipe' = [s \in Streams |-> Age(pipe[s])]
    /\ queue' = [s \in Streams |-> Age(queue[s])]

InFlight(s) == Len(Nums(queue[s] \o pipe[s]))

EngineReply(ok) ==
    /\ stdin # <<>>
    /\ Len(pipe["stdout"]) < PipeCap
    /\ LET c == Head(stdin)
           line == [k |-> IF ~ok THEN "err"
                          ELSE IF c.name = "genmove" THEN "move" ELSE "ack",
                    cur |-> c.cur, n |-> InFlight("stdout") + 1]
       IN /\ pipe' = [pipe EXCEPT !["stdout"] = Append(@, line)]
          /\ stdin' = IF c.left = 1 THEN Tail(stdin)
                      ELSE [stdin EXCEPT ![1].left = @ - 1]
    /\ UNCHANGED <<p, rd, stopped, queue, pc, sc, an, last, res, ncalls, inorder>>

EngineStderr(kind) ==
    /\ stdin # <<>>
    /\ Head(stdin).err > 0
    /\ Len(pipe["stderr"]) < PipeCap
    /\ pipe' = [pipe EXCEPT !["stderr"] =
                   Append(@, [k |-> kind, cur |-> Head(stdin).cur,
                              n |-> InFlight("stderr") + 1])]
    /\ stdin' = [stdin EXCEPT ![1].err = @ - 1]
    /\ UNCHANGED <<p, rd, stopped, queue, pc, sc, an, last, res, ncalls, inorder>>

\* an engine that keeps printing lines without the success marker, as fast
\* as they are consumed
EngineChatter ==
    /\ p = "proc"
    /\ Len(pipe["stdout"]) + Len(queue["stdout"]) < PipeCap
    /\ pipe' = [pipe EXCEPT !["stdout"] =
                   Append(@, [k |-> "noise", cur |-> FALSE, n |-> 0])]
    /\ UNCHANGED <<p, rd, stopped, queue, stdin, pc, sc, an, last, res, ncalls, inorder>>

\* an engine that, while it thinks about a genmove, keeps printing status
\* updates on stderr as fast as they are consumed
EngineUpdates ==
    /\ stdin # <<>>
    /\ Head(stdin).name = "genmove"
    /\ Len(pipe["stderr"]) + Len(queue["stderr"]) < PipeCap
    /\ pipe' = [pipe EXCEPT !["stderr"] =
                   Append(@, [k |-> "update", cur |-> TRUE, n |-> 0])]
    /\ UNCHANGED <<p, rd, stopped, queue, stdin, pc, sc, an, last, res, ncalls, inorder>>

(***************************************************************************)
(* ReaderThread.loop, one turn: fd.readline() returns or raises, a line    *)
(* that is not empty is queued, and the while condition is tested again.   *)
(* A reader rests inside fd.readline(): the call returns a line when the   *)
(* pipe holds one, the empty string at the end of the file (the process    *)
(* has exited and the pipe is drained), and may raise IOError at any time. *)
(* fd.closed is never set: nothing in the program closes p.stdout or       *)
(* p.stderr.                                                               *)
(***************************************************************************)
fd_closed(s) == FALSE

Reads == {"line", "empty", "IOError"}

on_IOError_leave == "leave"

\* except IOError: time.sleep(0.1); pass
on_IOError == "retry"

loop(s, read) ==
    /\ rd[s] \in {"inline", "bg"}
    /\ read \in Reads
    /\ CASE read = "line" ->
              \* if len(line) > 0: self.queue.put(line)
              /\ pipe[s] # <<>>
              /\ queue' = [queue EXCEPT ![s] = Append(@, Head(pipe[s]))]
              /\ pipe' = [pipe EXCEPT ![s] = Tail(@)]
         [] read = "empty" ->
              /\ pipe[s] = <<>>
              /\ halt.exited
              /\ UNCHANGED <<pipe, queue>>
         [] read = "IOError" ->
              UNCHANGED <<pipe, queue>>
    /\ IF \/ stopped[s] \/ fd_closed(s)
          \/ read = "IOError" /\ on_IOError = "leave"
       THEN \* the while condition fails: loop() returns
            IF rd[s] = "inline"
            THEN \* start_reader_thread goes on: Thread(target=None).start(),
                 \* return rt; start() then starts the next reader or goes
                 \* on to the setup commands
                 IF s = "stdout"
                 THEN /\ rd' = [rd EXCEPT !["stdout"] = "ended", !["stderr"] = "inline"]
                      /\ pc' = pc
                 ELSE /\ rd' = [rd EXCEPT ![s] = "ended"]
                      /\ pc' = "setup_boardsize"
            ELSE /\ rd' = [rd EXCEPT ![s] = "ended"]
                 /\ pc' = pc
       ELSE UNCHANGED <<rd, pc>>
    /\ UNCHANGED <<p, stopped, stdin, sc, an, last, res, ncalls, inorder>>

(***************************************************************************)
(* CLI.start.                                                              *)
(***************************************************************************)
\* start_reader_thread(fd): Thread(target=rt.loop()) calls rt.loop() in the
\* caller, before the Thread object exists
start_reader_thread(s) == [rd EXCEPT ![s] = "inline"]

start ==
    /\ pc = "new"
    /\ p' = "proc"
    /\ rd' = start_reader_thread("stdout")
    /\ pc' = "start_reader"
    /\ UNCHANGED <<stopped, pipe, queue, stdin, sc, an, last, res, ncalls, inorder>>

\* a handle whose two reader tasks run in the background
start_background ==
    /\ pc = "new"
    /\ p' = "proc"
    /\ rd' = [s \in Streams |-> "bg"]
    /\ pc' = "setup_boardsize"
    /\ UNCHANGED <<stopped, pipe, queue, stdin, sc, an, last, res, ncalls, inorder>>

(***************************************************************************)
(* CLI.send_command.                                                       *)
(***************************************************************************)
\* tries = 0, success_count = 0, write cmd + "\n", flush
CallSend(name, n, expected, drain, op, ret) ==
    /\ Write(name, n)
    /\ sc' = [cmd |-> name, expected |-> expected, drain |-> drain, tries |-> 0,
              success_count |-> 0, own |-> 0, op |-> op, ret |-> ret]
    /\ last' = LastNone
    /\ pc' = "sc_poll"

reached_off_by_one(count, expected) == count + 1 >= expected

\* success_count >= expected_success_count
reached(count, expected) == count >= expected

\* where an exception raised inside method `op` lands
Raised(op) == IF op = "start" THEN "failed" ELSE "idle"

\* how a send_command ended: the counts it reached and, when it raised,
\* the polls it made and the command its error message names
Ended(status, s, error) ==
    [status |-> status, cmd |-> s.cmd, expected |-> s.expected,
     success_count |-> s.success_count, own |-> s.own,
     tries |-> IF status = "raised" THEN s.tries ELSE 0, error |-> error]

after_loop_returns(now) == [pc |-> now.ret, last |-> Ended("returned", now, "")]

\* after the while loop:
\* raise Exception("Failed to send command '%s' to Ray" % cmd)
after_loop(now) == [pc |-> Raised(now.op), last |-> Ended("raised", now, now.cmd)]

\* one s = self.stdout_thread.readline() and what follows it
send_command_poll ==
    /\ pc = "sc_poll"
    /\ LET g == get_nowait(queue["stdout"])
           s == g.line
           count == sc.success_count + (IF HasSuccessMark(s) THEN 1 ELSE 0)
           own == sc.own + (IF HasSuccessMark(s) /\ s.cur THEN 1 ELSE 0)
           tries == sc.tries + (IF s = NoLine THEN 1 ELSE 0)
           now == [sc EXCEPT !.success_count = count, !.own = own, !.tries = tries]
       IN /\ Take("stdout", IF s = NoLine THEN <<>> ELSE <<s>>, g.rest)
          /\ IF HasSuccessMark(s) /\ reached(count, sc.expected)
             THEN \* if drain: self.drain(); return None
                  IF sc.drain
                  THEN /\ pc' = "sc_drain_out"
                       /\ sc' = now
                       /\ last' = last
                  ELSE /\ pc' = sc.ret
                       /\ sc' = ScNone
                       /\ last' = Ended("returned", now, "")
             ELSE IF s = NoLine /\ ~(tries <= timeout /\ p # "None")
             THEN \* the outer while condition fails
                  /\ pc' = after_loop(now).pc
                  /\ sc' = ScNone
                  /\ last' = after_loop(now).last
             ELSE /\ pc' = "sc_poll"
                  /\ sc' = now
                  /\ last' = last
    /\ UNCHANGED <<p, rd, stopped, stdin, an, res, ncalls>>

\* self.drain() before the return: stdout first, then stderr
send_command_drain_out ==
    /\ pc = "sc_drain_out"
    /\ LET d == read_all_lines(queue["stdout"])
       IN Take("stdout", d.lines, d.rest)
    /\ pc' = "sc_drain_err"
    /\ UNCHANGED <<p, rd, stopped, stdin, sc, an, last, res, ncalls>>

send_command_drain_err ==
    /\ pc = "sc_drain_err"
    /\ LET d == read_all_lines(queue["stderr"])
       IN Take("stderr", d.lines, d.rest)
    /\ pc' = sc.ret
    /\ sc' = ScNone
    /\ last' = Ended("returned", sc, "")
    /\ UNCHANGED <<p, rd, stopped, stdin, an, res, ncalls>>

\* the three setup commands of start()
start_setup ==
    /\ \/ /\ pc = "setup_boardsize"
          /\ CallSend("boardsize", 1, 1, TRUE, "start", "setup_komi")
       \/ /\ pc = "setup_komi"
          /\ CallSend("komi", 1, 1, TRUE, "start", "setup_time")
       \/ /\ pc = "setup_time"
          /\ CallSend("time_settings", 1, 1, TRUE, "start", "idle")
    /\ UNCHANGED <<p, rd, stopped, an, res, ncalls, inorder>>

(***************************************************************************)
(* CLI.reset, CLI.go_to_position, CLI.analyze, called by the driver.       *)
(***************************************************************************)
reset(budget) ==
    /\ pc = "idle"
    /\ ncalls < budget
    /\ ncalls' = ncalls + 1
    /\ res' = "none"
    /\ CallSend("clear_board", 1, 1, TRUE, "reset", "idle")
    /\ UNCHANGED <<p, rd, stopped, an, inorder>>

\* count = len(self.history); one write of the joined play commands
go_to_position(budget, count) ==
    /\ pc = "idle"
    /\ ncalls < budget
    /\ ncalls' = ncalls + 1
    /\ res' = "none"
    /\ CallSend("play", count, count, TRUE, "go_to_position", "idle")
    /\ UNCHANGED <<p, rd, stopped, an, inorder>>

PollLimit == PollBase + SecondsPerSearch * 2

analyze_time_left(budget) ==
    /\ \/ /\ pc = "idle"
          /\ ncalls < budget
          /\ ncalls' = ncalls + 1
          /\ res' = "none"
          /\ CallSend("time_left black", 1, 1, TRUE, "analyze", "an_time_left")
       \/ /\ pc = "an_time_left"
          /\ UNCHANGED <<ncalls, res>>
          /\ CallSend("time_left white", 1, 1, TRUE, "analyze", "an_genmove")
    /\ UNCHANGED <<p, rd, stopped, an, inorder>>

\* p.stdin.write("genmove ..."), not through send_command
analyze_genmove ==
    /\ pc = "an_genmove"
    /\ Write("genmove", 1)
    /\ an' = AnNone
    /\ pc' = IF 0 < PollLimit /\ p # "None" THEN "an_drain_out" ELSE "an_final_out"
    /\ UNCHANGED <<p, rd, stopped, sc, last, res, ncalls, inorder>>

\* out, err = self.drain(), in the polling loop and after it
analyze_drain_out ==
    /\ pc \in {"an_drain_out", "an_final_out"}
    /\ LET d == read_all_lines(queue["stdout"])
       IN /\ Take("stdout", d.lines, d.rest)
          /\ an' = [an EXCEPT !.fin = @ \/ HasFinished(d.lines)]
    /\ pc' = IF pc = "an_drain_out" THEN "an_drain_err" ELSE "an_final_err"
    /\ UNCHANGED <<p, rd, stopped, stdin, sc, last, res, ncalls>>

next_updated_stuck(updated, seen) == IF seen THEN 1 ELSE updated

\* if 'visits' in d: updated = 0
\* updated += 1
next_updated(updated, seen) == (IF seen THEN 0 ELSE updated) + 1

\* the rest of one iteration of the polling loop; leaving the loop writes
\* "\n" to the engine, which answers nothing to it
analyze_poll ==
    /\ pc = "an_drain_err"
    /\ LET d == read_all_lines(queue["stderr"])
           updated == next_updated(an.updated, HasStatusUpdate(d.lines))
           sum == an.sum \/ HasSummary(d.lines)
       IN /\ Take("stderr", d.lines, d.rest)
          /\ an' = [an EXCEPT !.updated = updated, !.sum = sum]
          /\ pc' = IF an.fin /\ sum THEN "an_final_out"
                   ELSE IF updated < PollLimit /\ p # "None" THEN "an_drain_out"
                   ELSE "an_final_out"
    /\ UNCHANGED <<p, rd, stopped, stdin, sc, last, res, ncalls>>

\* the final drain and parse(): stats['chosen'] is read whether or not the
\* finished line was found
analyze_parse ==
    /\ pc = "an_final_err"
    /\ LET d == read_all_lines(queue["stderr"])
       IN Take("stderr", d.lines, d.rest)
    /\ an' = AnNone
    /\ res' = IF an.fin THEN "ok" ELSE "KeyError"
    /\ pc' = "idle"
    /\ UNCHANGED <<p, rd, stopped, stdin, sc, last, ncalls>>

(***************************************************************************)
(* CLI.stop, called by the driver when the main line is done and in its    *)
(* finally clause, whatever happened before.                               *)
(***************************************************************************)
\* self.stdout_thread / self.stderr_thread: set once start_reader_thread
\* has returned the reader, None before
thread(s) == IF p # "None" /\ rd[s] \in {"bg", "ended"} THEN s ELSE "None"

\* p.stdin.write('quit\n'), p.stdin.flush() inside try / except IOError
write_quit == IF halt.exited THEN "quit: IOError passed" ELSE "quit"

\* p.terminate() inside try / except OSError
terminate == "terminate"

stop ==
    /\ pc \in {"new", "idle", "failed", "stopped"}
    /\ halt.calls < 3
    /\ IF p = "None"
       THEN \* if self.p is not None: fails, nothing is done
            /\ halt' = [halt EXCEPT !.calls = @ + 1, !.was = "None",
                                    !.raised = "", !.log = <<>>]
            /\ UNCHANGED protoVars
       ELSE LET stdout_thread == thread("stdout")
                stderr_thread == thread("stderr")
            IN  /\ p' = "None"
                /\ IF stdout_thread = "None"
                   THEN \* stdout_thread.stop() on None
                        /\ stopped' = stopped
                        /\ halt' = [halt EXCEPT !.calls = @ + 1, !.was = "proc",
                                                !.raised = "AttributeError",
                                                !.log = <<>>]
                        /\ pc' = "failed"
                        /\ UNCHANGED stdin
                   ELSE IF stderr_thread = "None"
                   THEN \* stderr_thread.stop() on None
                        /\ stopped' = [stopped EXCEPT !["stdout"] = TRUE]
                        /\ halt' = [halt EXCEPT !.calls = @ + 1, !.was = "proc",
                                                !.raised = "AttributeError",
                                                !.log = <<"stop stdout">>]
                        /\ pc' = "failed"
                        /\ UNCHANGED stdin
                   ELSE /\ stopped' = [s \in Streams |-> TRUE]
                        /\ halt' = [halt EXCEPT !.calls = @ + 1, !.was = "proc",
                                                !.raised = "",
                                                !.log = <<"stop stdout", "stop stderr",
                                                          write_quit, terminate>>,
                                                !.exited = TRUE]
                        /\ stdin' = <<>>
                        /\ pc' = "stopped"
                /\ UNCHANGED <<rd, pipe, queue, sc, an, last, res, ncalls,
                               inorder>>

\* an exception that reaches the driver out of start(): the user's
\* interrupt of a start() that does not return, or any other
exception_in_start ==
    /\ pc \in {"start_reader", "setup_boardsize", "setup_komi", "setup_time",
                "sc_poll", "sc_drain_out", "sc_drain_err"}
    /\ pc' = "failed"
    /\ sc' = ScNone
    \* a reader loop that ran in the caller is left; its reader was never
    \* handed to the handle
    /\ rd' = [s \in Streams |-> IF rd[s] = "inline" THEN "none" ELSE rd[s]]
    /\ UNCHANGED <<p, stopped, pipe, queue, stdin, an, last, res, ncalls,
                   inorder, halt>>

\* the engine process exits on its own
EngineExit ==
    /\ p = "proc"
    /\ pc \in {"idle", "failed"}
    /\ ~halt.exited
    /\ halt' = [halt EXCEPT !.exited = TRUE]
    /\ stdin' = <<>>
    /\ UNCHANGED <<p, rd, stopped, pipe, queue, pc, sc, an, last, res, ncalls,
                   inorder>>

(***************************************************************************)
(* The protocol client with its engine.                                    *)
(***************************************************************************)
MainStep(budget) ==
    \/ Proto(start)
    \/ Proto(start_background)
    \/ Proto(start_setup)
    \/ Proto(send_command_poll)
    \/ Proto(send_command_drain_out)
    \/ Proto(send_command_drain_err)
    \/ Proto(reset(budget))
    \/ \E count \in 0..MaxHist : Proto(go_to_position(budget, count))
    \/ Proto(analyze_time_left(budget))
    \/ Proto(analyze_genmove)
    \/ Proto(analyze_drain_out)
    \/ Proto(analyze_poll)
    \/ Proto(analyze_parse)

(***************************************************************************)
(* The position held by the handle: History and the checkpoint file name.  *)
(***************************************************************************)
board_size == 19

SGF_COORD == <<"a", "b", "c", "d", "e", "f", "g", "h", "i", "j", "k", "l",
               "m", "n", "o", "p", "q", "r", "s", "t", "u", "v", "w", "x",
               "y">>

BOARD_COORD == <<"a", "b", "c", "d", "e", "f", "g", "h", "j", "k", "l", "m",
                 "n", "o", "p", "q", "r", "s", "t", "u", "v", "w", "x", "y",
                 "z">>

\* str.index, counting from 0
index(str, c) == (CHOOSE j \in 1..Len(str) : str[j] = c) - 1

\* the fields of the handle the translations read
CLI(size) == [board_size |-> size]

\* a text is modelled as the sequence of its pieces: "d16" is <<"d", "16">>
convert_position_rows_from_top(self, pos) ==
    LET x == BOARD_COORD[index(SGF_COORD, pos[1]) + 1]
        y == index(SGF_COORD, pos[2]) + 1
    IN  <<x, ToString(y)>>

convert_position(self, pos) ==
    LET x == BOARD_COORD[index(SGF_COORD, pos[1]) + 1]
        y == self.board_size - index(SGF_COORD, pos[2])
    IN  <<x, ToString(y)>>

ascii_lowercase == <<"a", "b", "c", "d", "e", "f", "g", "h", "i", "j", "k", "l",
                     "m", "n", "o", "p", "q", "r", "s", "t", "u", "v", "w", "x",
                     "y", "z">>
ascii_uppercase == <<"A", "B", "C", "D", "E", "F", "G", "H", "I", "J", "K", "L",
                     "M", "N", "O", "P", "Q", "R", "S", "T", "U", "V", "W", "X",
                     "Y", "Z">>

\* str.lower() of one character
lower(c) ==
    IF \E j \in 1..26 : ascii_uppercase[j] = c
    THEN ascii_lowercase[CHOOSE j \in 1..26 : ascii_uppercase[j] = c]
    ELSE c

\* int() of a text of digits
int(digits) == CHOOSE n \in 0..99 : ToString(n) = digits

parse_position(self, pos) ==
    IF pos = <<"pass">> THEN <<>>
    ELSE LET x == index(BOARD_COORD, lower(pos[1]))
             y == self.board_size - int(pos[2])
         IN  <<SGF_COORD[x + 1], SGF_COORD[y + 1]>>

\* move = 'pass' if pos in ['', 'tt'] else self.convert_position(pos)
engine_move(self, pos) ==
    IF pos \in {<<>>, <<"t", "t">>} THEN <<"pass">> ELSE convert_position(self, pos)

\* the game the driver walks along, feeding its moves to add_move in SGF
\* coordinates; "tt" is a pass
Game == << [color |-> "black", pos |-> <<"d", "d">>],
           [color |-> "white", pos |-> <<"t", "t">>],
           [color |-> "black", pos |-> <<"p", "p">>] >>

\* cmd = "play %s %s" % (color, move)
play(color, pos) ==
    [verb |-> "play", color |-> color, pos |-> engine_move(CLI(board_size), pos)]

add_move(color, pos) ==
    /\ cpc = "idle"
    /\ Len(history) < MaxCacheHist
    /\ history' = Append(history, play(color, pos))
    /\ UNCHANGED <<RESTART_COUNT, files, cpc, cur, sent, result, out, prev,
                   ndo>>

pop_move ==
    /\ cpc = "idle"
    /\ history # <<>>
    /\ history' = SubSeq(history, 1, Len(history) - 1)
    /\ UNCHANGED <<RESTART_COUNT, files, cpc, cur, sent, result, out, prev,
                   ndo>>

first_char_of_black(c) == "b"

\* c[0] of a colour name
first_char(c) == IF c = "black" THEN "b" ELSE "w"

\* h.update(c[0] + p) for each command of History.  The digest stands for
\* the bytes it was fed (md5 taken as free of collisions).
RECURSIVE history_hash(_)
history_hash(h) ==
    IF h = <<>> THEN <<>>
    ELSE <<first_char(h[1].color)>> \o h[1].pos \o history_hash(Tail(h))

ckpt_fn(h, seconds_per_search) ==
    <<"analyze_">> \o history_hash(h) \o <<"_", ToString(seconds_per_search),
                                           "sec">>

exists(fn) == fn \in DOMAIN files

(***************************************************************************)
(* pickle.dump / pickle.load of a (stats, move_list) pair.  A file is a    *)
(* sequence of pickle opcodes with their arguments; the last opcode of a    *)
(* complete pickle is STOP.                                                 *)
(***************************************************************************)
Tok(op, n, s) == [op |-> op, n |-> n, s |-> s]
Op(op) == Tok(op, 0, "")

dump_stats(stats) ==
    <<Op("EMPTY_DICT"), Op("MARK"),
      Tok("STR", 0, "winrate"), Tok("INT", stats.winrate, ""),
      Tok("STR", 0, "visits"), Tok("INT", stats.visits, ""),
      Tok("STR", 0, "chosen"), Tok("STR", 0, stats.chosen),
      Op("SETITEMS")>>

dump_move(m) ==
    <<Op("EMPTY_DICT"), Op("MARK"),
      Tok("STR", 0, "pos"), Tok("STR", 0, m.pos),
      Tok("STR", 0, "winrate"), Tok("INT", m.winrate, ""),
      Op("SETITEMS")>>

RECURSIVE dump_moves(_)
dump_moves(l) ==
    IF l = <<>> THEN <<>> ELSE dump_move(l[1]) \o dump_moves(Tail(l))

pickle_dump(obj) ==
    <<Op("PROTO")>> \o dump_stats(obj[1]) \o <<Op("EMPTY_LIST")>>
    \o (IF obj[2] = <<>> THEN <<>>
        ELSE <<Op("MARK")>> \o dump_moves(obj[2]) \o <<Op("APPENDS")>>)
    \o <<Op("TUPLE2"), Op("STOP")>>

\* pickle.load raises (EOFError) on a file that does not end in STOP
pickle_complete(b) == b # <<>> /\ b[Len(b)].op = "STOP"

load_move(b, at) == [pos |-> b[at + 3].s, winrate |-> b[at + 5].n]

pickle_load_reversed(b) ==
    LET count == IF b[12].op = "MARK" THEN (Len(b) - 15) \div 7 ELSE 0
    IN  << [winrate |-> b[5].n, visits |-> b[7].n, chosen |-> b[9].s],
           [j \in 1..count |-> load_move(b, 13 + 7 * (count - j))] >>

pickle_load(b) ==
    LET count == IF b[12].op = "MARK" THEN (Len(b) - 15) \div 7 ELSE 0
    IN  << [winrate |-> b[5].n, visits |-> b[7].n, chosen |-> b[9].s],
           [j \in 1..count |-> load_move(b, 13 + 7 * (j - 1))] >>

\* what leela.analyze can return
Results ==
    { << [winrate |-> 55, visits |-> 100, chosen |-> "d16"],
         << [pos |-> "d16", winrate |-> 55], [pos |-> "q4", winrate |-> 48] >> >>,
      << [winrate |-> 40, visits |-> 7, chosen |-> "pass"], <<>> >> }

NoResult == <<>>

(***************************************************************************)
(* do_variations: the variation tree, expand and the search loop.          *)
(* Python floats are taken as the exact fractions they stand for.          *)
(***************************************************************************)
RECURSIVE GCD(_, _)
GCD(a, b) == IF b = 0 THEN a ELSE GCD(b, a % b)

Rat(n, d) == LET g == GCD(n, d) IN [n |-> n \div g, d |-> d \div g]
RMul(a, b) == Rat(a.n * b.n, a.d * b.d)
RAdd(a, b) == Rat(a.n * b.d + b.n * a.d, a.d * b.d)
RDiv(a, b) == Rat(a.n * b.d, a.d * b.n)
RLess(a, b) == a.n * b.d < b.n * a.d

\* candidate moves as parse() returns them; pos and the moves of pv are in
\* SGF coordinates, the pass being the empty text.  A book candidate has
\* the keys pos and is_book only.  The principal variation of a candidate
\* line starts with the candidate itself: record() plays pv[0] for the
\* colour to move at the node.
Cand(pos, visits, policy_prob, is_book, pv) ==
    [pos |-> pos, visits |-> visits, policy_prob |-> policy_prob,
     is_book |-> is_book, pv |-> pv]

CandA == Cand(<<"d", "d">>, 3, Rat(1, 4), FALSE, << <<"d", "d">>, <<"p", "p">> >>)
CandB == Cand(<<"p", "p">>, 1, Rat(3, 4), FALSE, << <<"p", "p">> >>)
CandZ == Cand(<<"q", "q">>, 0, Rat(0, 1), FALSE, <<>>)
CandK == Cand(<<"c", "c">>, 0, Rat(0, 1), TRUE, <<>>)
CandP == Cand(<<>>, 2, Rat(1, 2), FALSE, << <<>> >>)

MoveLists == {<<>>, <<CandA>>, <<CandA, CandB>>, <<CandB, CandA>>, <<CandZ>>,
              <<CandK>>, <<CandP, CandA>>}

StatsSet == {[bookmoves |-> FALSE], [bookmoves |-> TRUE]}
NoStats == [bookmoves |-> FALSE]

\* the pairs (stats, move_list) parse() gives: a book candidate only with
\* the book-move count in stats
Analyses ==
    {a \in [stats : StatsSet, move_list : MoveLists] :
        (\E i \in 1..Len(a.move_list) : a.move_list[i].is_book)
            => a.stats.bookmoves}

\* next_game_move: the text of the next move in the game record ("tt" is how
\* a record of a 19x19 game may write a pass)
GameMoves == {<<"d", "d">>, <<"q", "q">>, <<"t", "t">>}

\* "black" if "white" in self.history[-1] else "white"
whose_turn(h, is_handicap_game) ==
    IF Len(h) = 0 THEN (IF is_handicap_game THEN "white" ELSE "black")
    ELSE IF h[Len(h)].color = "white" THEN "black" ELSE "white"

\* for mv in moves: leela.add_move(leela.whose_turn(), mv)
RECURSIVE add_moves(_, _, _)
add_moves(h, moves, is_handicap_game) ==
    IF moves = <<>> THEN h
    ELSE add_moves(Append(h, play(whose_turn(h, is_handicap_game), moves[1])),
                   Tail(moves), is_handicap_game)

pop_moves_none(h, moves) == h

\* for mv in moves: leela.pop_move()
pop_moves(h, moves) == SubSeq(h, 1, Len(h) - Len(moves))

Node(is_root, hist, prob, color) ==
    [is_root |-> is_root, history |-> hist, explored |-> FALSE,
     prob |-> prob, stats |-> NoStats, move_list |-> <<>>, color |-> color,
     children |-> <<>>]

child_prob_raw_by_root(node, rootcolor, move) ==
    IF move.is_book THEN Rat(1, 1)
    ELSE IF node.is_root THEN Rat(move.visits, 1)
    ELSE RDiv(RAdd(move.policy_prob, Rat(move.visits, 1)), Rat(2, 1))

child_prob_raw(node, rootcolor, move) ==
    IF move.is_book THEN Rat(1, 1)
    ELSE IF node.color = rootcolor THEN Rat(move.visits, 1)
    ELSE RDiv(RAdd(move.policy_prob, Rat(move.visits, 1)), Rat(2, 1))

RECURSIVE probsum(_, _, _)
probsum(node, rootcolor, move_list) ==
    IF move_list = <<>> THEN Rat(0, 1)
    ELSE RAdd(child_prob_raw(node, rootcolor, move_list[1]),
              probsum(node, rootcolor, Tail(move_list)))

del_nothing(l, x) == l

\* the list without its first element equal to x (x is in the list at most
\* once: a node is a leaf once)
del(l, x) ==
    IF \E i \in 1..Len(l) : l[i] = x
    THEN LET i == CHOOSE i \in 1..Len(l) :
                     l[i] = x /\ \A j \in 1..(i - 1) : l[j] # x
         IN  SubSeq(l, 1, i - 1) \o SubSeq(l, i + 1, Len(l))
    ELSE l

\* expand(node, stats, move_list) on the tree t and the leaf list lv.  A
\* node is named by the child slots that lead to it from the root; slot i
\* of `children` is FALSE where the code appends None.
expand(t, lv, id, rootcolor, game_move, stats, move_list) ==
    LET node == t[id]
        sum == probsum(node, rootcolor, move_list)
        made(i) == ~(node.is_root /\ move_list[i].pos = game_move)
        slots == {i \in 1..Len(move_list) : made(i)}
        clr == IF node.color = "black" THEN "white" ELSE "black"
        child(i) ==
            Node(FALSE, Append(node.history, move_list[i].pos),
                 RMul(node.prob,
                      RDiv(child_prob_raw(node, rootcolor, move_list[i]), sum)),
                 clr)
        RECURSIVE ids(_)
        ids(i) == IF i > Len(move_list) THEN <<>>
                  ELSE (IF made(i) THEN <<Append(id, i)>> ELSE <<>>)
                       \o ids(i + 1)
    IN  IF slots # {} /\ sum.n = 0
        THEN [error |-> "ZeroDivisionError", tree |-> t, leaves |-> lv]
        ELSE [error |-> "",
              tree |->
                 [x \in DOMAIN t \cup {Append(id, i) : i \in slots} |->
                     IF x = id
                     THEN [node EXCEPT
                              !.children = [i \in 1..Len(move_list) |-> made(i)],
                              !.stats = stats,
                              !.move_list = move_list,
                              !.explored = TRUE]
                     ELSE IF x \in DOMAIN t THEN t[x]
                     ELSE child(x[Len(x)])],
              leaves |-> del(lv \o ids(1), id)]

\* max(leaves, key=(lambda n: n["prob"])): the first of the largest
max(t, lv) ==
    lv[CHOOSE i \in 1..Len(lv) :
          /\ \A j \in 1..Len(lv) : ~RLess(t[lv[i]].prob, t[lv[j]].prob)
          /\ \A j \in 1..(i - 1) : RLess(t[lv[j]].prob, t[lv[i]].prob)]

NoOverride == -1        \* args.num_to_show is None

VaNone == [N |-> 0, game_move |-> <<>>, stats |-> NoStats,
           move_list |-> <<>>, is_handicap_game |-> FALSE, rootcolor |-> "",
           num_to_show |-> NoOverride]

(***************************************************************************)
(* record(tree): the walk over the variation tree that writes it into the  *)
(* game record.  What it does to the cursor is kept as a list of steps;    *)
(* the cursor stands `at` the moves it has been advanced by since          *)
(* do_variations was called.                                               *)
(***************************************************************************)
Advance(at, color, mv) == [op |-> "advance", at |-> at, color |-> color, mv |-> mv]
Previous == [op |-> "previous", at |-> <<>>, color |-> "", mv |-> <<>>]
Annotate(at) == [op |-> "annotate", at |-> at, color |-> "", mv |-> <<>>]

Done(ops) == [error |-> "", ops |-> ops]

\* int(min(len(pv), max(1, len(pv) * 2 / 3 - 1))), or the override
num_to_show(pv, override) ==
    IF override # NoOverride THEN override
    ELSE LET want == (2 * Len(pv)) \div 3 - 1
             atleast == IF want < 1 THEN 1 ELSE want
         IN  IF Len(pv) < atleast THEN Len(pv) ELSE atleast

\* the branch `elif i == 0` of record: num_to_show moves of the principal
\* variation forward, then as many steps back
pv_walk(node, override) ==
    LET m == node.move_list[1]
    IN  IF m.is_book THEN [error |-> "KeyError", ops |-> <<>>]
        ELSE LET n == num_to_show(m.pv, override)
                 k_max == IF n <= Len(m.pv) THEN n ELSE Len(m.pv)
                 other == IF node.color = "white" THEN "black" ELSE "white"
                 color(k) == IF k % 2 = 1 THEN node.color ELSE other
                 fwd == [k \in 1..k_max |->
                           Advance(node.history \o SubSeq(m.pv, 1, k - 1),
                                   color(k), m.pv[k])]
             IN  IF n > Len(m.pv) THEN [error |-> "IndexError", ops |-> fwd]
                 ELSE Done(fwd \o [k \in 1..n |-> Previous])

RECURSIVE record(_, _, _)
RECURSIVE record_children(_, _, _, _)
\* the loop over node["children"], from child i on
record_children(t, id, i, override) ==
    LET node == t[id]
        child == Append(id, i)
        this ==
            IF ~node.children[i] THEN Done(<<>>)
            ELSE IF t[child].explored
            THEN LET r == record(t, child, override)
                     mv == t[child].history[Len(t[child].history)]
                 IN  [error |-> r.error,
                      ops |-> <<Advance(node.history, node.color, mv)>> \o r.ops
                              \o (IF r.error = "" THEN <<Previous>> ELSE <<>>)]
            ELSE IF i = 1 THEN pv_walk(node, override)
            ELSE Done(<<>>)
    IN  IF i > Len(node.children) THEN Done(<<>>)
        ELSE IF this.error # "" THEN this
        ELSE LET more == record_children(t, id, i + 1, override)
             IN  [error |-> more.error, ops |-> this.ops \o more.ops]

record(t, id, override) ==
    LET node == t[id]
        notes == IF node.is_root THEN <<>>
                 ELSE <<Annotate(node.history), Annotate(node.history)>>
        below == record_children(t, id, 1, override)
    IN  [error |-> below.error, ops |-> notes \o below.ops]

RecNone == Done(<<>>)

\* the engine's board after leela.start(): empty, whatever History holds
\* (add_move writes to History alone)
EngNone == [board |-> <<>>, before |-> [history |-> <<>>, board |-> <<>>],
            skipped |-> FALSE]

\* cmd = "genmove %s\n" % self.whose_turn(): the engine plays the move it
\* chooses on its own board
genmove(h, is_handicap_game) ==
    [verb |-> "genmove", color |-> whose_turn(h, is_handicap_game),
     pos |-> <<"chosen">>]

\* the engine's board after the commands of a do_analyze that found no
\* checkpoint: clear_board, the play commands of History, genmove
analysed(h, is_handicap_game) == Append(h, genmove(h, is_handicap_game))

\* the board when an exception leaves do_analyze: before any command was
\* written, after clear_board, after the replay or after genmove
BoardsOnRaise(board, h, is_handicap_game) ==
    {board, <<>>, h, analysed(h, is_handicap_game)}

(***************************************************************************)
(* retry_analysis.wrapped and do_analyze.  leela.reset, go_to_position and  *)
(* analyze are taken by their outcomes: each sends its commands and either  *)
(* returns or raises (a send_command that times out, a parse that fails).   *)
(***************************************************************************)
ThinkTimes == {1, 2}

CurNone == [seconds |-> 0, skip |-> FALSE, i |-> 0, tried |-> 0,
            failed |-> 0, quiet |-> TRUE]

OutNone == [status |-> "none", value |-> NoResult, key |-> <<>>,
            skip |-> FALSE, tried |-> 0, failed |-> 0, quiet |-> TRUE]

\* what is remembered of the call before the last one
PrevNone == [status |-> "none", value |-> NoResult, key |-> <<>>]
Older(o) == [status |-> o.status, value |-> o.value, key |-> o.key]

Outcome(status, c, value) ==
    [status |-> status, value |-> value, key |-> ckpt_fn(history, c.seconds),
     skip |-> c.skip, tried |-> c.tried, failed |-> c.failed,
     quiet |-> c.quiet]

Cmd(name, plays, expected) ==
    [name |-> name, plays |-> plays, expected |-> expected]

range(n) == 0 .. n - 1

\* for i in range(RESTART_COUNT + 1): the loop body runs fn, past the range
\* wrapped falls off its end
for_loop(i) == IF i \in range(RESTART_COUNT + 1) THEN "check" ELSE "fall_off"

reraise_one_early(i) == i + 1 = RESTART_COUNT

\* if i + 1 == RESTART_COUNT + 1: raise e
reraise(i) == i + 1 = RESTART_COUNT + 1

wrapped(seconds_per_search, skip_checkpoints) ==
    /\ cpc = "idle"
    /\ ndo < MaxDoCalls
    /\ ndo' = ndo + 1
    /\ prev' = Older(out)
    /\ out' = OutNone
    /\ cur' = [CurNone EXCEPT !.seconds = seconds_per_search,
                              !.skip = skip_checkpoints]
    /\ cpc' = for_loop(0)
    /\ sent' = <<>>
    /\ result' = NoResult
    /\ UNCHANGED <<RESTART_COUNT, history, files>>

wrapped_fall_off ==
    /\ cpc = "fall_off"
    /\ out' = Outcome("returned_None", cur, NoResult)
    /\ cpc' = "idle"
    /\ cur' = CurNone
    /\ sent' = <<>>
    /\ result' = NoResult
    /\ UNCHANGED <<RESTART_COUNT, history, files, prev, ndo>>

\* an Exception leaves fn after it has sent n more commands: the except
\* clause of wrapped
except(n) ==
    LET c == [cur EXCEPT !.failed = @ + 1, !.quiet = @ /\ n = 0] IN
    /\ IF reraise(cur.i)
       THEN /\ out' = Outcome("raised", c, NoResult)
            /\ cpc' = "idle"
            /\ cur' = CurNone
       ELSE /\ out' = out
            /\ cpc' = for_loop(cur.i + 1)
            /\ cur' = [c EXCEPT !.i = @ + 1]
    /\ sent' = <<>>
    /\ result' = NoResult
    /\ UNCHANGED <<RESTART_COUNT, history, files, prev, ndo>>

send(cmds) ==
    /\ sent' = sent \o cmds
    /\ cur' = [cur EXCEPT !.quiet = @ /\ cmds = <<>>]

ckpt_hit_flag_inverted(fn, skip_checkpoints) == exists(fn) /\ skip_checkpoints

\* os.path.exists(ckpt_fn) and not config.defaults['skip_checkpoints']
ckpt_hit(fn, skip_checkpoints) == exists(fn) /\ ~skip_checkpoints

do_analyze_check ==
    /\ cpc = "check"
    /\ cur' = [cur EXCEPT !.tried = @ + 1]
    /\ cpc' = IF ckpt_hit(ckpt_fn(history, cur.seconds), cur.skip)
              THEN "load" ELSE "reset"
    /\ UNCHANGED <<RESTART_COUNT, history, files, sent, result, out, prev,
                   ndo>>

do_analyze_load ==
    /\ cpc = "load"
    /\ LET b == files[ckpt_fn(history, cur.seconds)] IN
       IF pickle_complete(b)
       THEN /\ result' = pickle_load(b)
            /\ cpc' = "return"
            /\ UNCHANGED <<RESTART_COUNT, history, files, cur, sent, out,
                           prev, ndo>>
       ELSE except(0)

do_analyze_reset(ok) ==
    /\ cpc = "reset"
    /\ IF ok
       THEN /\ send(<<Cmd("clear_board", <<>>, 1)>>)
            /\ cpc' = "go_to_position"
            /\ UNCHANGED <<RESTART_COUNT, history, files, result, out, prev,
                           ndo>>
       ELSE except(1)

do_analyze_go_to_position(ok) ==
    /\ cpc = "go_to_position"
    /\ IF ok
       THEN /\ send(<<Cmd("play", history, Len(history))>>)
            /\ cpc' = "analyze"
            /\ UNCHANGED <<RESTART_COUNT, history, files, result, out, prev,
                           ndo>>
       ELSE except(1)

\* the writes of CLI.analyze, in order
analyze_cmds ==
    <<Cmd("time_left black", <<>>, 1), Cmd("time_left white", <<>>, 1),
      Cmd("genmove", <<>>, 0), Cmd("", <<>>, 0)>>

\* failed = 0: analyze returns a result; failed = k: the k-th write is the
\* last one made before an exception leaves analyze
do_analyze_analyze(failed) ==
    /\ cpc = "analyze"
    /\ IF failed = 0
       THEN /\ send(analyze_cmds)
            /\ result' \in Results
            /\ cpc' = "open"
            /\ UNCHANGED <<RESTART_COUNT, history, files, out, prev, ndo>>
       ELSE except(failed)

do_analyze_open_before_analyze ==
    /\ cpc = "reset"
    /\ files' = [fn \in DOMAIN files \cup {ckpt_fn(history, cur.seconds)} |->
                    IF fn = ckpt_fn(history, cur.seconds) THEN <<>>
                    ELSE files[fn]]
    /\ UNCHANGED <<RESTART_COUNT, history, cpc, cur, sent, result, out,
                   prev, ndo>>

\* open(ckpt_fn, 'wb'): the file is created, or cut to nothing
do_analyze_open ==
    /\ cpc = "open"
    /\ files' = [fn \in DOMAIN files \cup {ckpt_fn(history, cur.seconds)} |->
                    IF fn = ckpt_fn(history, cur.seconds) THEN <<>>
                    ELSE files[fn]]
    /\ cpc' = "dump"
    /\ UNCHANGED <<RESTART_COUNT, history, cur, sent, result, out, prev,
                   ndo>>

\* pickle.dump((stats, move_list), ckpt_file); when the write fails (an
\* OSError) the file keeps what had been written of it
do_analyze_dump(ok) ==
    /\ cpc = "dump"
    /\ IF ok
       THEN /\ files' = [files EXCEPT ![ckpt_fn(history, cur.seconds)] =
                                         pickle_dump(result)]
            /\ cpc' = "return"
            /\ UNCHANGED <<RESTART_COUNT, history, cur, sent, result, out,
                           prev, ndo>>
       ELSE LET c == [cur EXCEPT !.failed = @ + 1] IN
            /\ files' = [files EXCEPT ![ckpt_fn(history, cur.seconds)] =
                                         SubSeq(pickle_dump(result), 1, 5)]
            /\ IF reraise(cur.i)
               THEN /\ out' = Outcome("raised", c, NoResult)
                    /\ cpc' = "idle"
                    /\ cur' = CurNone
               ELSE /\ out' = out
                    /\ cpc' = for_loop(cur.i + 1)
                    /\ cur' = [c EXCEPT !.i = @ + 1]
            /\ sent' = <<>>
            /\ result' = NoResult
            /\ UNCHANGED <<RESTART_COUNT, history, prev, ndo>>

do_analyze_return ==
    /\ cpc = "return"
    /\ out' = Outcome("returned", cur, result)
    /\ cpc' = "idle"
    /\ cur' = CurNone
    /\ sent' = <<>>
    /\ result' = NoResult
    /\ UNCHANGED <<RESTART_COUNT, history, files, prev, ndo>>

\* the program is stopped while a call is in progress (the interrupt is not
\* an Exception, so wrapped does not catch it); a later run starts over with
\* an empty History
interrupted ==
    /\ cpc # "idle"
    /\ out' = Outcome("interrupted", [CurNone EXCEPT !.seconds = cur.seconds],
                       NoResult)
    /\ cpc' = "idle"
    /\ cur' = CurNone
    /\ sent' = <<>>
    /\ result' = NoResult
    /\ history' = <<>>
    /\ UNCHANGED <<RESTART_COUNT, files, prev, ndo>>

VarIdle ==
    /\ va = VaNone
    /\ tree = <<>>
    /\ leaves = <<>>
    /\ vpc = "idle"
    /\ vi = 0
    /\ vnode = <<>>
    /\ rec = RecNone
    /\ eng = EngNone

FxNone == [fn |-> "", in |-> <<>>, out |-> <<>>, done |-> FALSE]

CacheStep ==
    \/ \E j \in {Len(history) + 1} \cap DOMAIN Game : Cache(add_move(Game[j].color, Game[j].pos))
    \/ Cache(pop_move)
    \/ \E t \in ThinkTimes, skip \in BOOLEAN : Cache(wrapped(t, skip))
    \/ Cache(wrapped_fall_off)
    \/ Cache(do_analyze_check)
    \/ Cache(do_analyze_load)
    \/ \E ok \in BOOLEAN : Cache(do_analyze_reset(ok))
    \/ \E ok \in BOOLEAN : Cache(do_analyze_go_to_position(ok))
    \/ \E failed \in 0..4 : Cache(do_analyze_analyze(failed))
    \/ Cache(do_analyze_open)
    \/ \E ok \in BOOLEAN : Cache(do_analyze_dump(ok))
    \/ Cache(do_analyze_return)
    \/ Cache(interrupted)

CacheIdle ==
    /\ history = <<>>
    /\ files = <<>>
    /\ cpc = "idle"
    /\ cur = CurNone
    /\ sent = <<>>
    /\ result = NoResult
    /\ out = OutNone
    /\ prev = PrevNone
    /\ ndo = 0

\* a started handle, between two calls
ProtoStarted ==
    /\ p = "proc"
    /\ rd = [s \in Streams |-> "bg"]
    /\ stopped = [s \in Streams |-> FALSE]
    /\ pipe = [s \in Streams |-> <<>>]
    /\ queue = [s \in Streams |-> <<>>]
    /\ stdin = <<>>
    /\ pc = "idle"
    /\ sc = ScNone
    /\ an = AnNone
    /\ last = LastNone
    /\ res = "none"
    /\ ncalls = 0
    /\ inorder = [s \in Streams |-> TRUE]
    /\ halt = HaltNone

CacheInit ==
    /\ ProtoStarted
    /\ CacheIdle
    /\ VarIdle
    /\ fx = FxNone
    /\ RESTART_COUNT \in -1 .. MaxRestarts

CacheNext == CacheStep

SpecCache == CacheInit /\ [][CacheNext]_vars

returns_at_once_when_empty(stats, move_list) == Len(move_list) <= 0

\* if 'bookmoves' in stats or len(move_list) <= 0: return None
returns_at_once(stats, move_list) == stats.bookmoves \/ Len(move_list) <= 0

\* do_variations up to its search loop: the early return, the root and
\* expand(tree, stats, move_list)
do_variations ==
    /\ vpc = "call"
    /\ IF returns_at_once(va.stats, va.move_list)
       THEN /\ vpc' = "returned"
            /\ UNCHANGED <<va, tree, leaves, vi, vnode>>
       ELSE LET rootcolor == whose_turn(history, va.is_handicap_game)
                root == Node(TRUE, <<>>, Rat(1, 1), rootcolor)
                e == expand([x \in {<<>>} |-> root], <<>>, <<>>, rootcolor,
                            va.game_move, va.stats, va.move_list)
            IN  /\ va' = [va EXCEPT !.rootcolor = rootcolor]
                /\ IF e.error # ""
                   THEN vpc' = "raised" /\ UNCHANGED <<tree, leaves>>
                   ELSE vpc' = "loop" /\ tree' = e.tree /\ leaves' = e.leaves
                /\ vi' = 0
                /\ UNCHANGED vnode
    /\ UNCHANGED <<history, rec, eng>>

\* for i in range(nodes_per_variation): one turn of the loop, up to the
\* call of do_analyze inside search(node)
search ==
    /\ vpc = "loop"
    /\ IF vi \in range(va.N)
       THEN IF Len(leaves) > 0
            THEN LET node == max(tree, leaves) IN
                 /\ vnode' = node
                 /\ history' = add_moves(history, tree[node].history,
                                         va.is_handicap_game)
                 /\ vpc' = "do_analyze"
                 /\ eng' = [eng EXCEPT !.before = [history |-> history,
                                                  board |-> eng.board]]
                 /\ UNCHANGED vi
            ELSE /\ vi' = vi + 1
                 /\ UNCHANGED <<vpc, vnode, history, eng>>
       ELSE /\ vpc' = "record"
            /\ UNCHANGED <<vi, vnode, history, eng>>
    /\ UNCHANGED <<va, tree, leaves, rec>>

\* do_analyze returns (stats, move_list), from a checkpoint (skipped) or
\* from the engine: the rest of search(node)
search_expand(stats, move_list, skipped) ==
    /\ vpc = "do_analyze"
    /\ eng' = [eng EXCEPT !.skipped = skipped,
                          !.board = IF skipped THEN @
                                    ELSE analysed(history, va.is_handicap_game)]
    /\ LET e == expand(tree, leaves, vnode, va.rootcolor, va.game_move,
                       stats, move_list)
       IN  IF e.error # ""
           THEN /\ vpc' = "raised"
                /\ UNCHANGED <<tree, leaves, vi, vnode, history>>
           ELSE /\ tree' = e.tree
                /\ leaves' = e.leaves
                /\ history' = pop_moves(history, tree[vnode].history)
                /\ vi' = vi + 1
                /\ vnode' = <<>>
                /\ vpc' = "loop"
    /\ UNCHANGED <<va, rec>>

\* do_analyze raises: the error leaves search and do_variations
search_raises(board) ==
    /\ vpc = "do_analyze"
    /\ vpc' = "raised"
    /\ eng' = [eng EXCEPT !.board = board]
    /\ UNCHANGED <<va, tree, leaves, vi, vnode, history, rec>>

\* record(tree), the last statement of do_variations
do_variations_record ==
    /\ vpc = "record"
    /\ rec' = record(tree, <<>>, va.num_to_show)
    /\ vpc' = IF rec'.error = "" THEN "returned" ELSE "raised"
    /\ UNCHANGED <<va, tree, leaves, vi, vnode, history, eng>>

VarStep ==
    \/ Vari(do_variations)
    \/ Vari(search)
    \/ \E a \in Analyses, skipped \in BOOLEAN :
          Vari(search_expand(a.stats, a.move_list, skipped))
    \/ \E board \in BoardsOnRaise(eng.board, history, va.is_handicap_game) :
          Vari(search_raises(board))
    \/ Vari(do_variations_record)

\* args.num_to_show: not given, or a number of moves
NumToShow == {NoOverride, 1, 3}

\* do_variations is called at a position of the game, with the analysis of
\* that position
VarInit ==
    /\ ProtoStarted
    /\ RESTART_COUNT = 0
    /\ \E k \in 0..MaxVarHist : history = add_moves(<<>>, [j \in 1..k |-> Game[j].pos], FALSE)
    /\ files = <<>>
    /\ cpc = "idle"
    /\ cur = CurNone
    /\ sent = <<>>
    /\ result = NoResult
    /\ out = OutNone
    /\ prev = PrevNone
    /\ ndo = 0
    /\ va \in [N : 0..MaxNodes, game_move : GameMoves, stats : StatsSet,
               move_list : MoveLists, is_handicap_game : BOOLEAN,
               rootcolor : {""}, num_to_show : NumToShow]
    /\ [stats |-> va.stats, move_list |-> va.move_list] \in Analyses
    /\ tree = <<>>
    /\ leaves = <<>>
    /\ vpc = "call"
    /\ vi = 0
    /\ vnode = <<>>
    /\ rec = RecNone
    /\ eng = EngNone
    /\ fx = FxNone

VarNext == VarStep

SpecVar == VarInit /\ [][VarNext]_vars

(***************************************************************************)
(* CLI.parse.  The six patterns of ray.py are texts the source leaves      *)
(* blank; a line of the transcript is modelled by the pattern it matches   *)
(* (k) and the groups of the match.  Percentages are whole numbers,        *)
(* fractions are exact.                                                    *)
(***************************************************************************)
Banner == [k |-> "banner"]                       \* '================...'
BookLine(bookmoves, positions) ==                \* bookmove_regex
    [k |-> "bookmove", bookmoves |-> bookmoves, positions |-> positions]
StatusLine(mc, nn, margin) ==                    \* status_regex
    [k |-> "status", mc |-> mc, nn |-> nn, margin |-> margin]
MoveLine(pos, visits, winrate) ==                \* move_regex
    [k |-> "move", pos |-> pos, visits |-> visits, winrate |-> winrate,
     mc |-> winrate, nn |-> winrate, nn_count |-> visits, policy |-> 10,
     pv |-> <<pos>>]
BestLine(pos, winrate) ==                        \* best_regex
    [k |-> "best", pos |-> pos, winrate |-> winrate]
StatsLine(visits) == [k |-> "stats", visits |-> visits]   \* stats_regex
FinishedLine(mv) == [k |-> "move", move |-> mv]  \* finished_regex, on stdout

\* 0.01 * float(v.strip())
to_fraction(v) == Rat(v, 100)

flip_winrate_when_black(self, wr) ==
    IF whose_turn(self.history, self.is_handicap_game) = "black"
    THEN Rat(wr.d - wr.n, wr.d) ELSE wr

\* (1.0 - wr) if self.whose_turn() == "white" else wr
flip_winrate(self, wr) ==
    IF whose_turn(self.history, self.is_handicap_game) = "white"
    THEN Rat(wr.d - wr.n, wr.d) ELSE wr

\* stats[k] = v
Put(stats, k, v) ==
    [x \in DOMAIN stats \cup {k} |-> IF x = k THEN v ELSE stats[x]]

ScanStart == [stats |-> [x \in {} |-> 0], move_list |-> <<>>,
              finished |-> FALSE, summarized |-> FALSE,
              info |-> [pos |-> <<"unbound">>, visits |-> 0]]

\* one turn of `for line in stderr`
parse_line(self, st, line) ==
    LET finished == st.finished \/ line.k = "banner"
        now == [st EXCEPT !.finished = finished]
    IN  CASE line.k = "bookmove" ->
               [now EXCEPT !.stats = Put(Put(@, "bookmoves", line.bookmoves),
                                         "positions", line.positions)]
          [] line.k = "status" ->
               [now EXCEPT !.stats =
                   Put(Put(Put(@, "mc_winrate", flip_winrate(self, line.mc)),
                           "nn_winrate", flip_winrate(self, line.nn)),
                       "margin", line.margin)]
          [] line.k = "move" ->
               LET info == [pos |-> parse_position(self, line.pos),
                            visits |-> line.visits,
                            winrate |-> flip_winrate(self, to_fraction(line.winrate)),
                            mc_winrate |-> flip_winrate(self, to_fraction(line.mc)),
                            nn_winrate |-> flip_winrate(self, to_fraction(line.nn)),
                            nn_count |-> line.nn_count,
                            policy_prob |-> to_fraction(line.policy),
                            pv |-> [j \in 1..Len(line.pv) |->
                                       parse_position(self, line.pv[j])]]
               IN  [now EXCEPT !.move_list = Append(@, info), !.info = info]
          [] line.k = "best" /\ finished /\ ~st.summarized ->
               [now EXCEPT !.stats =
                   Put(Put(@, "best", parse_position(self, line.pos)),
                       "winrate", flip_winrate(self, to_fraction(line.winrate)))]
          [] line.k = "stats" /\ finished /\ ~st.summarized ->
               [now EXCEPT !.stats = Put(@, "visits", line.visits),
                           !.summarized = TRUE]
          [] OTHER -> now

RECURSIVE scan(_, _, _)
scan(self, st, lines) ==
    IF lines = <<>> THEN st
    ELSE scan(self, parse_line(self, st, Head(lines)), Tail(lines))

NoMatch == <<"no match">>

\* m = re.search(finished_regex, "".join(stdout)); m.group(1)
finished_move(stdout) ==
    IF \E i \in 1..Len(stdout) : stdout[i].k = "move"
    THEN stdout[CHOOSE i \in 1..Len(stdout) :
                   /\ stdout[i].k = "move"
                   /\ \A j \in 1..(i - 1) : stdout[j].k # "move"].move
    ELSE NoMatch

required_keys == <<"mc_winrate", "margin", "best", "winrate", "visits">>

boost == 1000000       \* 1000000000000000 in the source: above every visit count

\* sorted(l, key=key, reverse=reverse): a stable sort; keys[j] is what the
\* key function gave for l[j]
sorted(l, keys, reverse) ==
    LET n == Len(l)
        first(j, i) == IF reverse THEN keys[j] > keys[i]
                       ELSE keys[j] < keys[i]
        rank(i) == Cardinality({j \in 1..n :
                       first(j, i) \/ (keys[j] = keys[i] /\ j < i)}) + 1
    IN  [r \in 1..n |-> l[CHOOSE i \in 1..n : rank(i) = r]]

keep_all(l) == l

\* [info for (i, info) in enumerate(move_list) if i == 0 or info['visits'] > 0]
keep(l) ==
    LET idx == {i \in 1..Len(l) : i = 1 \/ l[i].visits > 0}
    IN  [r \in 1..Cardinality(idx) |->
            l[CHOOSE i \in idx : Cardinality({j \in idx : j < i}) = r - 1]]

\* how a call of parse ends: the exception or the pair returned, with the
\* warnings printed and the list as sorted() left it
Parsed(error, stats, move_list, warnings, ordered) ==
    [error |-> error, stats |-> stats, move_list |-> move_list,
     warnings |-> warnings, ordered |-> ordered]

book_entry_unflagged(pos) == [pos |-> pos, visits |-> 0]

\* {'pos': stats['chosen'], 'is_book': True}
book_entry(pos) == [pos |-> pos, is_book |-> TRUE]

\* stats['chosen'] == "resign"
remap(chosen) == chosen = <<"resign">>

parse(self, stdout, stderr) ==
    LET st == scan(self, ScanStart, stderr)
        m == finished_move(stdout)
        stats == IF m = NoMatch THEN st.stats
                 ELSE Put(st.stats, "chosen",
                          IF m = <<"resign">> THEN <<"resign">>
                          ELSE parse_position(self, m))
        has(k) == k \in DOMAIN stats
    IN  IF has("bookmoves") /\ Len(st.move_list) = 0
        THEN IF ~has("chosen") THEN Parsed("KeyError", stats, <<>>, <<>>, <<>>)
             ELSE Parsed("", stats, <<book_entry(stats["chosen"])>>, <<>>, <<>>)
        ELSE LET warnings == SelectSeq(required_keys, LAMBDA k : ~has(k))
                 \* lambda key: ... info['pos'] == stats['best'] ...: info is
                 \* the variable of parse, bound to the last move parsed
                 key(x) == IF st.info.pos = stats["best"] THEN boost
                           ELSE st.info.visits
                 ordered == sorted(st.move_list,
                                   [j \in 1..Len(st.move_list) |-> key(st.move_list[j])],
                                   TRUE)
                 move_list == keep(ordered)
             IN  IF st.move_list # <<>> /\ ~has("best")
                 THEN Parsed("KeyError", stats, st.move_list, warnings, <<>>)
                 ELSE IF ~has("chosen")
                 THEN Parsed("KeyError", stats, move_list, warnings, ordered)
                 ELSE IF ~remap(stats["chosen"])
                 THEN Parsed("", stats, move_list, warnings, ordered)
                 ELSE IF ~has("best")
                 THEN Parsed("KeyError", stats, move_list, warnings, ordered)
                 ELSE Parsed("", Put(stats, "chosen", stats["best"]),
                             move_list, warnings, ordered)

\* the transcripts parse is called with: which lines the engine printed
D4 == <<"D", "4">>
Q16 == <<"Q", "16">>
C3 == <<"C", "3">>
R4 == <<"R", "4">>

MoveLines ==
    { <<>>,
      <<MoveLine(D4, 5, 40), MoveLine(Q16, 0, 30), MoveLine(C3, 0, 20),
        MoveLine(R4, 50, 70)>>,
      <<MoveLine(D4, 0, 40)>>,
      <<MoveLine(Q16, 7, 30), MoveLine(D4, 7, 40)>>,
      <<MoveLine(R4, 50, 70), MoveLine(D4, 5, 40)>> }

Transcripts ==
    [book : BOOLEAN, status : BOOLEAN, moves : MoveLines, banner : BOOLEAN,
     best : {NoMatch, R4, D4}, stats : BOOLEAN,
     chosen : {NoMatch, D4, <<"resign">>, <<"pass">>},
     is_handicap_game : BOOLEAN]

\* the book line, and the raw win-rates of the best-move line (a
\* percentage) and of the status line (fractions)
TheBookLine == BookLine(1, 40)
RawBest == Rat(70, 100)
RawMc == Rat(7, 10)
RawNn == Rat(3, 5)

stderr_of(t) ==
    (IF t.book THEN <<TheBookLine>> ELSE <<>>)
    \o (IF t.status THEN <<StatusLine(RawMc, RawNn, "B+2.5")>> ELSE <<>>)
    \o t.moves
    \o (IF t.banner THEN <<Banner>> ELSE <<>>)
    \o (IF t.best # NoMatch THEN <<BestLine(t.best, 70)>> ELSE <<>>)
    \o (IF t.stats THEN <<StatsLine(120)>> ELSE <<>>)

stdout_of(t) ==
    <<[k |-> "ack"]>>
    \o (IF t.chosen # NoMatch THEN <<FinishedLine(t.chosen)>> ELSE <<>>)

\* self, as parse reads it
Self(t) == [board_size |-> board_size, history |-> history,
            is_handicap_game |-> t.is_handicap_game]

\* stats, move_list = self.parse(stdout, stderr)
parse_call ==
    /\ fx.fn = "parse"
    /\ ~fx.done
    /\ fx' = [fx EXCEPT !.out = parse(Self(fx.in), stdout_of(fx.in),
                                      stderr_of(fx.in)),
                        !.done = TRUE]

ParseInit ==
    /\ ProtoStarted
    /\ RESTART_COUNT = 0
    /\ \E k \in 0..2 : history = add_moves(<<>>, [j \in 1..k |-> Game[j].pos], FALSE)
    /\ files = <<>>
    /\ cpc = "idle"
    /\ cur = CurNone
    /\ sent = <<>>
    /\ result = NoResult
    /\ out = OutNone
    /\ prev = PrevNone
    /\ ndo = 0
    /\ VarIdle
    /\ fx \in [fn : {"parse"}, in : Transcripts, out : {<<>>}, done : {FALSE}]

ParseNext == Pure(parse_call)

SpecParse == ParseInit /\ [][ParseNext]_vars


(***************************************************************************)
(* The two translations applied one after the other, on the board sizes    *)
(* of the records the driver reads (SZ, 19 when absent).                   *)
(***************************************************************************)
Sizes == {9, 13, board_size}

upper(c) == ascii_uppercase[index(ascii_lowercase, c) + 1]

\* the coordinates of a record on a board of the given size, the pass
\* written as the empty text, and "tt"
RecordCoords(size) ==
    {<<SGF_COORD[i], SGF_COORD[j]>> : i \in 1..size, j \in 1..size}

\* the moves an engine prints on a board of the given size, the column in
\* either case
EngineCoords(size) ==
    {<<l, ToString(n)>> :
        l \in {BOARD_COORD[i] : i \in 1..size} \cup {upper(BOARD_COORD[i]) : i \in 1..size},
        n \in 1..size}

Applied(f, v) == [f |-> f, v |-> v]

\* the text the next translation is applied to
value == IF fx.out = <<>> THEN fx.in.pos ELSE fx.out[Len(fx.out)].v

convert_position_call ==
    /\ fx.fn \in {"record", "engine"}
    /\ ~fx.done
    /\ fx.fn = "engine" => fx.out # <<>>
    /\ fx.fn = "record" => fx.out = <<>>
    /\ value \in RecordCoords(fx.in.size)
    /\ fx' = [fx EXCEPT !.out = Append(@, Applied("convert_position",
                                  convert_position(CLI(fx.in.size), value))),
                        !.done = (fx.fn = "engine")]

add_move_call ==
    /\ fx.fn \in {"record", "engine"}
    /\ ~fx.done
    /\ fx.fn = "engine" => fx.out # <<>>
    /\ fx.fn = "record" => fx.out = <<>>
    /\ fx' = [fx EXCEPT !.out = Append(@, Applied("add_move",
                                  engine_move(CLI(fx.in.size), value))),
                        !.done = (fx.fn = "engine")]

parse_position_call ==
    /\ fx.fn \in {"record", "engine"}
    /\ ~fx.done
    /\ fx.fn = "engine" => fx.out = <<>>
    /\ fx.fn = "record" => fx.out # <<>>
    /\ fx' = [fx EXCEPT !.out = Append(@, Applied("parse_position",
                                  parse_position(CLI(fx.in.size), value))),
                        !.done = (fx.fn = "record")]

CoordInit ==
    /\ ProtoStarted
    /\ RESTART_COUNT = 0
    /\ CacheIdle
    /\ VarIdle
    /\ \E size \in Sizes :
          \/ \E pos \in RecordCoords(size) \cup {<<>>, <<"t", "t">>} :
                fx = [fn |-> "record", in |-> [size |-> size, pos |-> pos],
                      out |-> <<>>, done |-> FALSE]
          \/ \E pos \in EngineCoords(size) \cup {<<"pass">>} :
                fx = [fn |-> "engine", in |-> [size |-> size, pos |-> pos],
                      out |-> <<>>, done |-> FALSE]

CoordNext ==
    \/ Pure(convert_position_call)
    \/ Pure(add_move_call)
    \/ Pure(parse_position_call)

SpecCoord == CoordInit /\ [][CoordNext]_vars
(***************************************************************************)
(* The checkpoint file name of two positions, letter by letter.            *)
(***************************************************************************)
\* the characters of one piece of a text
chars(piece) ==
    IF piece = "pass" THEN <<"p", "a", "s", "s">>
    ELSE IF piece = "analyze_" THEN <<"a", "n", "a", "l", "y", "z", "e", "_">>
    ELSE IF piece = "sec" THEN <<"s", "e", "c">>
    ELSE IF \E n \in 10..99 : ToString(n) = piece
         THEN <<ToString(int(piece) \div 10), ToString(int(piece) % 10)>>
    ELSE <<piece>>

\* the text the pieces make up when written one after the other
RECURSIVE text(_)
text(pieces) ==
    IF pieces = <<>> THEN <<>> ELSE chars(pieces[1]) \o text(Tail(pieces))

\* the moves of the compared positions, in the record's notation: d16, d1,
\* b1 and a pass
HashMoves == {<<"d", "d">>, <<"d", "s">>, <<"b", "s">>, <<>>}

Commands == {play(color, pos) : color \in {"black", "white"}, pos \in HashMoves}

Histories == {<<>>} \cup {<<c>> : c \in Commands}
                   \cup {<<c, d>> : c \in Commands, d \in Commands}

HashTimes == {1, 11}

ckpt_fn_call ==
    /\ fx.fn = "ckpt_fn"
    /\ ~fx.done
    /\ fx' = [fx EXCEPT !.out = [j \in {1, 2} |->
                                  [fed |-> text(history_hash(fx.in[j].history)),
                                   key |-> text(ckpt_fn(fx.in[j].history,
                                                        fx.in[j].seconds))]],
                        !.done = TRUE]

HashInit ==
    /\ ProtoStarted
    /\ RESTART_COUNT = 0
    /\ CacheIdle
    /\ VarIdle
    /\ fx \in [fn : {"ckpt_fn"},
                in : [{1, 2} -> [history : Histories, seconds : HashTimes]],
                out : {<<>>}, done : {FALSE}]

HashNext == Pure(ckpt_fn_call)

SpecHash == HashInit /\ [][HashNext]_vars

ProtoInit ==
    /\ p = "None"
    /\ rd = [s \in Streams |-> "none"]
    /\ stopped = [s \in Streams |-> FALSE]
    /\ pipe = [s \in Streams |-> <<>>]
    /\ queue = [s \in Streams |-> <<>>]
    /\ stdin = <<>>
    /\ pc = "new"
    /\ sc = ScNone
    /\ an = AnNone
    /\ last = LastNone
    /\ res = "none"
    /\ ncalls = 0
    /\ inorder = [s \in Streams |-> TRUE]
    /\ halt = HaltNone

Init == ProtoInit /\ CacheIdle /\ RESTART_COUNT = 0 /\ VarIdle /\ fx = FxNone

Engine ==
    \/ \E ok \in BOOLEAN : Proto(EngineReply(ok))
    \/ \E kind \in {"update", "summary"} : Proto(EngineStderr(kind))

Next ==
    \/ MainStep(MaxCalls)
    \/ \E s \in Streams, read \in Reads : Proto(loop(s, read))
    \/ Engine

Spec == Init /\ [][Next]_vars

\* a driver that calls the handle again after a call has failed, as the
\* retry wrapper of do_analyze does
RetryNext ==
    \/ MainStep(MaxRetryCalls)
    \/ \E s \in Streams, read \in Reads : Proto(loop(s, read))
    \/ Engine

SpecRetry == Init /\ [][RetryNext]_vars

\* one command sent to an engine that may print without end.  The main flow
\* and the two reader tasks are threads the scheduler keeps running; the
\* engine owes nothing.
SendNext ==
    \/ Proto(start_background)
    \/ Proto(start_setup)
    \/ Proto(send_command_poll)
    \/ Proto(send_command_drain_out)
    \/ Proto(send_command_drain_err)
    \/ Proto(reset(MaxCalls))

FairNext ==
    \/ SendNext
    \/ \E s \in Streams, read \in Reads : Proto(loop(s, read))
    \/ \E ok \in BOOLEAN : Proto(EngineReply(ok))
    \/ Proto(EngineChatter)

FairSend ==
    /\ Init
    /\ [][FairNext]_vars
    /\ WF_vars(SendNext)
    /\ \A s \in Streams : WF_vars(Proto(loop(s, "line")))

\* one analyze() of an engine that may finish, go silent, or report its
\* progress without end.  The main flow and the two reader tasks are kept
\* running by the scheduler; the engine owes nothing.
AnalyzeFlow ==
    \/ Proto(start_background)
    \/ Proto(start_setup)
    \/ Proto(send_command_poll)
    \/ Proto(send_command_drain_out)
    \/ Proto(send_command_drain_err)
    \/ Proto(analyze_time_left(MaxCalls))
    \/ Proto(analyze_genmove)
    \/ Proto(analyze_drain_out)
    \/ Proto(analyze_poll)
    \/ Proto(analyze_parse)

AnalyzeNext ==
    \/ AnalyzeFlow
    \/ \E s \in Streams, read \in Reads : Proto(loop(s, read))
    \/ \E ok \in BOOLEAN : Proto(EngineReply(ok))
    \/ \E kind \in {"update", "summary"} : Proto(EngineStderr(kind))
    \/ Proto(EngineUpdates)

FairAnalyze ==
    /\ Init
    /\ [][AnalyzeNext]_vars
    /\ WF_vars(AnalyzeFlow)
    /\ \A s \in Streams : WF_vars(Proto(loop(s, "line")))

\* a handle started and stopped, with nothing asked of it in between
StopNext ==
    \/ Proto(start)
    \/ Proto(start_background)
    \/ Proto(start_setup)
    \/ Proto(send_command_poll)
    \/ Proto(send_command_drain_out)
    \/ Proto(send_command_drain_err)
    \/ \E s \in Streams, read \in Reads : Proto(loop(s, read))
    \/ \E ok \in BOOLEAN : Proto(EngineReply(ok))
    \/ Halt(exception_in_start)
    \/ Halt(EngineExit)
    \/ Halt(stop)

SpecStop == Init /\ [][StopNext]_vars

\* the same handle with its readers kept running by the scheduler: a
\* fd.readline() that has a line to return, or the end of the file, returns.
\* An IOError is owed to nobody.
FairStop ==
    /\ Init
    /\ [][StopNext]_vars
    /\ \A s \in Streams :
          WF_vars(\E read \in {"line", "empty"} : Proto(loop(s, read)))

(***************************************************************************)
(* __main__ of sgfanalyze.py from its try statement on: the main-line      *)
(* pass, the variation pass, the except and finally clauses and the last   *)
(* write of the record.  A pass is taken by what it does to the record:    *)
(* sgf counts the annotations added to the record in memory, file those    *)
(* of the record as last written to the output file.                       *)
(***************************************************************************)
NoFile == -1

MainBegin == [fn |-> "main", at |-> "start1", sgf |-> 0, file |-> NoFile,
              raised |-> FALSE, stops |-> 0]

\* leela.start() has returned: the pass begins
main_start ==
    /\ fx.fn = "main"
    /\ fx.at \in {"start1", "start2"}
    /\ pc = "idle"
    /\ fx' = [fx EXCEPT !.at = IF fx.at = "start1" THEN "pass1" ELSE "pass2"]
    /\ UNCHANGED <<protoVars, halt>>

\* leela.start() raises: Popen cannot launch the executable, a setup
\* command times out, or the start is interrupted
main_start_raises ==
    /\ fx.fn = "main"
    /\ fx.at \in {"start1", "start2"}
    /\ pc \in {"new", "failed"}
    /\ fx' = [fx EXCEPT !.at = "except", !.raised = TRUE]
    /\ UNCHANGED <<protoVars, halt>>

\* one turn of `while not cursor.atEnd` of the main line: do_analyze, the
\* annotations of the move, write_to_file; or an exception out of it
main_line(ok) ==
    /\ fx.fn = "main"
    /\ fx.at = "pass1"
    /\ fx.sgf < MaxMoves
    /\ fx' = IF ok THEN [fx EXCEPT !.sgf = @ + 1, !.file = fx.sgf + 1]
             ELSE [fx EXCEPT !.at = "except", !.raised = TRUE]
    /\ UNCHANGED <<protoVars, halt>>

\* leela.stop(); leela.clear_history() after the main line
main_stop ==
    /\ fx.fn = "main"
    /\ fx.at = "pass1"
    /\ stop
    /\ fx' = IF halt'.raised = ""
             THEN [fx EXCEPT !.at = "start2", !.stops = @ + 1]
             ELSE [fx EXCEPT !.at = "except", !.stops = @ + 1, !.raised = TRUE]

\* the second leela.start(), up to Popen: a new process with new pipes
main_start_again ==
    /\ fx.fn = "main"
    /\ fx.at = "start2"
    /\ pc = "stopped"
    /\ pc' = "new"
    /\ rd' = [s \in Streams |-> "none"]
    /\ stopped' = [s \in Streams |-> FALSE]
    /\ pipe' = [s \in Streams |-> <<>>]
    /\ queue' = [s \in Streams |-> <<>>]
    /\ inorder' = [s \in Streams |-> TRUE]
    /\ halt' = [halt EXCEPT !.exited = FALSE]
    /\ UNCHANGED <<p, stdin, sc, an, last, res, ncalls, fx>>

\* one turn of the loop of the variation pass: do_variations, which ends
\* with record(tree), then write_to_file; or an exception out of it, after
\* record() has added `partial` annotations
variations(ok, partial) ==
    /\ fx.fn = "main"
    /\ fx.at = "pass2"
    /\ fx.sgf < MaxMoves + 1
    /\ fx' = IF ok THEN [fx EXCEPT !.sgf = @ + 1, !.file = fx.sgf + 1]
             ELSE [fx EXCEPT !.sgf = @ + partial, !.at = "except",
                             !.raised = TRUE]
    /\ UNCHANGED <<protoVars, halt>>

\* the try block is left without an exception
try_done ==
    /\ fx.fn = "main"
    /\ fx.at = "pass2"
    /\ fx' = [fx EXCEPT !.at = "finally"]
    /\ UNCHANGED <<protoVars, halt>>

\* except: traceback.print_exc(), "Failure, reporting partial results..."
except_clause ==
    /\ fx.fn = "main"
    /\ fx.at = "except"
    /\ fx' = [fx EXCEPT !.at = "finally"]
    /\ UNCHANGED <<protoVars, halt>>

\* finally: leela.stop(); an exception out of it leaves the program
finally_clause ==
    /\ fx.fn = "main"
    /\ fx.at = "finally"
    /\ stop
    /\ fx' = IF halt'.raised = ""
             THEN [fx EXCEPT !.at = "write", !.stops = @ + 1]
             ELSE [fx EXCEPT !.at = "crashed", !.stops = @ + 1]

\* utils.write_to_file(args.save_to_file, 'w', sgf), the last statement
write_to_file ==
    /\ fx.fn = "main"
    /\ fx.at = "write"
    /\ fx' = [fx EXCEPT !.at = "end", !.file = fx.sgf]
    /\ UNCHANGED <<protoVars, halt>>

MainInit ==
    /\ ProtoInit
    /\ CacheIdle
    /\ RESTART_COUNT = 0
    /\ VarIdle
    /\ fx = MainBegin

MainNext ==
    \/ fx.at \in {"start1", "start2"} /\ Proto(start)
    \/ fx.at \in {"start1", "start2"} /\ Proto(start_background)
    \/ Proto(start_setup)
    \/ Proto(send_command_poll)
    \/ Proto(send_command_drain_out)
    \/ Proto(send_command_drain_err)
    \/ \E s \in Streams, read \in Reads : Proto(loop(s, read))
    \/ \E ok \in BOOLEAN : Proto(EngineReply(ok))
    \/ Halt(exception_in_start)
    \/ Main(main_start)
    \/ Main(main_start_raises)
    \/ \E ok \in BOOLEAN : Main(main_line(ok))
    \/ Main(main_stop)
    \/ Main(main_start_again)
    \/ \E ok \in BOOLEAN, partial \in {0, 1} : Main(variations(ok, partial))
    \/ Main(try_done)
    \/ Main(except_clause)
    \/ Main(finally_clause)
    \/ Main(write_to_file)

SpecMain == MainInit /\ [][MainNext]_vars

(***************************************************************************)
(* Properties of the protocol client.                                      *)
(***************************************************************************)

\* C1: the reader loops of start() run as background tasks, so start()
\* never waits inside a reader loop and goes on to its setup commands: no
\* reader loop is ever run by the main control flow itself.
C1_ReadersRunInBackground == \A s \in Streams : rd[s] # "inline"

\* C2: a send_command that returns has read at least expectedAcks success
\* lines that the engine printed in answer to that very command, and has
\* counted no success line left over from an earlier command.
C2_AcksAnswerTheCommand ==
    last.status = "returned" =>
        /\ last.own >= last.expected
        /\ last.own = last.success_count

\* C3: a send_command that has read fewer than expectedAcks success lines
\* never returns normally; it polls no further once tries exceeds timeout,
\* and then it has raised an error naming the command.
C3_TimeoutRaises ==
    /\ last.status = "returned" => last.success_count >= last.expected
    /\ pc = "sc_poll" => sc.tries <= timeout
    /\ last.status = "raised" => last.tries = timeout + 1 /\ last.error = last.cmd

C3_Witness ==
    /\ last.status = "raised"
    /\ last.success_count >= 1
    /\ last.success_count < last.expected

\* C4: every send_command ends, by returning or by raising, whatever the
\* engine prints meanwhile.
C4_SendCommandEnds == (pc = "sc_poll") ~> (pc # "sc_poll")

\* C5: on each stream the lines handed to the main flow are the lines the
\* engine wrote, oldest first and each once (every batch handed over was the
\* oldest lines outstanding, and the lines still queued or in the pipe are
\* the next ones in order); a readline() or drain() the main flow has
\* reached can always be taken, whatever the queues hold.
ReadingPcs == {"sc_poll", "sc_drain_out", "sc_drain_err", "an_drain_out",
               "an_drain_err", "an_final_out", "an_final_err"}

C5_LinesInOrderOnce ==
    /\ \A s \in Streams :
          /\ inorder[s]
          /\ Nums(queue[s] \o pipe[s]) = Iota(Len(Nums(queue[s] \o pipe[s])))
    /\ pc \in ReadingPcs => ENABLED MainStep(MaxCalls)

C5_Witness ==
    /\ pc = "sc_poll"
    /\ sc.success_count = 1
    /\ Len(queue["stdout"]) = 1
    /\ queue["stdout"][1].k = "ack"

(***************************************************************************)
(* Properties of the analysis cache.                                       *)
(***************************************************************************)
sent_reset == <<Cmd("clear_board", <<>>, 1)>>
sent_position == sent_reset \o <<Cmd("play", history, Len(history))>>
sent_analysis == sent_position \o analyze_cmds

\* C6: with checkpoints enabled, a do_analyze call that follows a call which
\* returned for the same History and think time sends nothing to the engine
\* (neither while it runs nor by the time it returns) and returns exactly
\* the (stats, move list) pair that earlier call returned.
C6_SecondCallFromCheckpoint ==
    /\ ( /\ cpc # "idle"
         /\ ~cur.skip
         /\ prev.status = "returned"
         /\ prev.key = ckpt_fn(history, cur.seconds) )
       => sent = <<>> /\ cur.quiet
    /\ ( /\ out.status = "returned"
         /\ ~out.skip
         /\ prev.status = "returned"
         /\ prev.key = out.key )
       => out.quiet /\ out.value = prev.value

C6_Witness ==
    /\ out.status = "returned"
    /\ ~out.skip
    /\ out.quiet
    /\ prev.status = "returned"
    /\ prev.key = out.key
    /\ Len(out.value[2]) = 2

\* C7: on a cache miss do_analyze goes in this order: clear_board
\* acknowledged, the whole History replayed in one send awaiting
\* len(History) acknowledgements, the analysis, and only with the result of
\* the analysis in hand the write of the checkpoint file; a checkpoint file
\* comes into being at no other point, so none does when an earlier step
\* fails.
C7_MissOrder ==
    /\ [](/\ cpc = "go_to_position" => sent = sent_reset
          /\ cpc = "analyze" => sent = sent_position
          /\ cpc \in {"open", "dump"} =>
                sent = sent_analysis /\ result \in Results)
    /\ [][ DOMAIN files' # DOMAIN files =>
              /\ cpc = "open"
              /\ sent = sent_analysis
              /\ result \in Results ]_vars

C7_Witness ==
    /\ cpc = "return"
    /\ history # <<>>
    /\ sent = sent_analysis
    /\ exists(ckpt_fn(history, cur.seconds))
    /\ files[ckpt_fn(history, cur.seconds)] = pickle_dump(result)

\* C8: a call made with the skip-checkpoints flag off never opens for
\* writing a file that exists, so it writes the file of a key only when it
\* creates it; what a file holds changes only while the call that created
\* it writes it, or in a call made with the flag on; no file is ever
\* removed.
C8_WriteOnce ==
    /\ [](cpc = "open" /\ ~cur.skip => ~exists(ckpt_fn(history, cur.seconds)))
    /\ [][ \A fn \in DOMAIN files :
              /\ fn \in DOMAIN files'
              /\ files'[fn] # files[fn] =>
                    \/ cur.skip
                    \/ /\ cpc = "dump"
                       /\ fn = ckpt_fn(history, cur.seconds)
                       /\ files[fn] = <<>> ]_vars

C8_Witness ==
    /\ cpc = "return"
    /\ cur.skip
    /\ prev.status = "returned"
    /\ prev.key = ckpt_fn(history, cur.seconds)
    /\ files[prev.key] = pickle_dump(result)
    /\ result # prev.value

\* C9: the wrapper runs do_analyze at most RESTART_COUNT + 1 times for one
\* call; the call returns with the first attempt that succeeds (every
\* attempt before it failed, none follows it); the error is propagated only
\* once RESTART_COUNT + 1 attempts have failed; every attempt that misses
\* the cache starts with nothing sent and goes through clear_board and the
\* replay of the whole History before it analyses.
C9_BoundedRetry ==
    /\ cur.tried <= RESTART_COUNT + 1
    /\ cur.tried - cur.failed \in {0, 1}
    /\ out.status = "returned" => out.tried = out.failed + 1
    /\ out.status = "raised" =>
          out.failed = RESTART_COUNT + 1 /\ out.tried = RESTART_COUNT + 1
    /\ cpc \in {"check", "reset"} => sent = <<>>
    /\ cpc = "analyze" => sent = sent_position
    /\ cpc = "check" => cur.failed = cur.i

C9_Witness ==
    /\ out.status = "raised"
    /\ RESTART_COUNT >= 1
    /\ out.failed = RESTART_COUNT + 1
    /\ ~out.quiet

(***************************************************************************)
(* Properties of the variation expander.                                   *)
(***************************************************************************)
explored_nodes == {x \in DOMAIN tree : tree[x].explored}

\* C10: one do_variations call expands at most nodes_per_variation nodes of
\* the variation tree in total, whatever the root candidates and the
\* analysis results are (stated for a budget of at least one node; with a
\* budget of 0 the expansion of the root alone is already one too many).
C10_AtMostNExpansions ==
    va.N >= 1 => Cardinality(explored_nodes) <= va.N

\* the candidate move pos is the move the game goes on with: the two are the
\* same move once given to add_move
is_game_move(pos) == play("black", pos).pos = play("black", va.game_move).pos

\* C11: all through a do_variations run the root has no child for the move
\* played next in the game: no node of the tree lies below that move, the
\* slot of a root candidate for that move is null, no leaf of the pool and
\* no node being analysed lies below that move, and record() never advances
\* the cursor from the root by that move.
C11_NoChildForGameMove ==
    /\ \A x \in DOMAIN tree : x # <<>> => ~is_game_move(tree[x].history[1])
    /\ <<>> \in DOMAIN tree =>
          \A i \in DOMAIN tree[<<>>].children :
             is_game_move(tree[<<>>].move_list[i].pos) => ~tree[<<>>].children[i]
    /\ \A i \in DOMAIN leaves : ~is_game_move(tree[leaves[i]].history[1])
    /\ vnode # <<>> => ~is_game_move(tree[vnode].history[1])
    /\ \A k \in DOMAIN rec.ops :
          rec.ops[k].op = "advance" /\ rec.ops[k].at = <<>>
             => ~is_game_move(rec.ops[k].mv)

(***************************************************************************)
(* Properties of the response parser.                                      *)
(***************************************************************************)
parse_done == fx.fn = "parse" /\ fx.done
parse_returned == parse_done /\ fx.out.error = ""
book_path == fx.in.book /\ fx.in.moves = <<>>
to_move == whose_turn(history, fx.in.is_handicap_game)
Complement(wr) == Rat(wr.d - wr.n, wr.d)

\* C12: off the book path the list parse returns starts with the engine's
\* best move whenever that move is among the candidates, and goes on with
\* the other candidates by visit count, largest first.
C12_BestFirstThenVisits ==
    (parse_returned /\ ~book_path) =>
        LET l == fx.out.move_list
            o == fx.out.ordered
        IN  /\ (\E i \in DOMAIN o : o[i].pos = fx.out.stats["best"])
                  => l[1].pos = fx.out.stats["best"]
            /\ \A i, j \in 2..Len(l) : i < j => l[i].visits >= l[j].visits

\* C13: off the book path the list parse returns is the first element of
\* the ordered list followed by exactly the other elements with more than
\* zero visits, in the order they had; it is not empty when a candidate
\* line was parsed, and nothing after its first element has zero visits.
C13_FirstKeptOthersVisited ==
    (parse_returned /\ ~book_path) =>
        LET l == fx.out.move_list
            o == fx.out.ordered
        IN  /\ Len(o) = Len(fx.in.moves)
            /\ o = <<>> => l = <<>>
            /\ o # <<>> =>
                  l = <<o[1]>> \o SelectSeq(Tail(o), LAMBDA x : x.visits > 0)
            /\ fx.in.moves # <<>> => l # <<>>
            /\ \A i \in 2..Len(l) : l[i].visits > 0

C13_Witness ==
    /\ parse_returned
    /\ ~book_path
    /\ Len(fx.out.ordered) = 4
    /\ Len(fx.out.move_list) = 2

\* every win-rate of what parse returned is the raw value of its line put
\* through Orient
Oriented(Orient(_)) ==
    LET stats == fx.out.stats
        l == fx.out.move_list
    IN  /\ "winrate" \in DOMAIN stats =>
              stats["winrate"] = Orient(RawBest)
        /\ "mc_winrate" \in DOMAIN stats =>
              /\ stats["mc_winrate"] = Orient(RawMc)
              /\ stats["nn_winrate"] = Orient(RawNn)
        /\ ~book_path =>
              \A i \in DOMAIN l :
                 \E j \in DOMAIN fx.in.moves :
                    LET line == fx.in.moves[j]
                    IN  /\ l[i].pos = parse_position(CLI(board_size), line.pos)
                        /\ l[i].winrate = Orient(Rat(line.winrate, 100))
                        /\ l[i].mc_winrate = Orient(Rat(line.mc, 100))
                        /\ l[i].nn_winrate = Orient(Rat(line.nn, 100))

ComplementForBlack(wr) == IF to_move = "black" THEN Complement(wr) ELSE wr
ComplementForWhite(wr) == IF to_move = "white" THEN Complement(wr) ELSE wr

\* C14, as claimed: every win-rate parse extracts is the complement of the
\* raw value when black is to move in the current History, and the raw
\* value itself when white is to move.
C14_BlackToMoveFlipped == parse_returned => Oriented(ComplementForBlack)

\* C14, as the code has it: every win-rate parse extracts is the complement
\* of the raw value when white is to move in the current History (0.7
\* becomes 0.3), and the raw value itself when black is to move.
C14_WhiteToMoveFlipped == parse_returned => Oriented(ComplementForWhite)

C14_Witness ==
    /\ parse_returned
    /\ to_move = "white"
    /\ "winrate" \in DOMAIN fx.out.stats
    /\ fx.out.stats["winrate"] = Rat(3, 10)
    /\ fx.out.move_list # <<>>

\* C15: whenever the engine's chosen move is "resign" and a best move was
\* parsed, parse returns stats whose chosen is the best move, and neither
\* chosen nor the pos of a returned candidate is "resign", on the book path
\* as well.
C15_ResignRemapped ==
    (parse_done /\ fx.in.chosen = <<"resign">> /\ "best" \in DOMAIN fx.out.stats) =>
        /\ fx.out.error = ""
        /\ fx.out.stats["chosen"] = fx.out.stats["best"]
        /\ fx.out.stats["chosen"] # <<"resign">>
        /\ \A i \in DOMAIN fx.out.move_list :
              fx.out.move_list[i].pos # <<"resign">>

\* C16: parse never raises over a missing field: whatever lines are missing
\* from the transcript, it returns, the stats lack the keys not found, and
\* off the book path there is one warning for each required key not found.
C16_MissingTolerated ==
    parse_done =>
        /\ fx.out.error = ""
        /\ fx.in.chosen = NoMatch => "chosen" \notin DOMAIN fx.out.stats
        /\ ~book_path =>
              fx.out.warnings =
                 SelectSeq(required_keys, LAMBDA k : k \notin DOMAIN fx.out.stats)

\* C17: for a transcript with a book line, no candidate line and a chosen
\* move, parse returns stats with the bookmoves count, the positions count
\* and the chosen move as it was found ("resign" stays "resign"), and a
\* list of exactly one candidate, for the chosen move and flagged as a book
\* move; it prints no warning.
C17_BookMove ==
    (parse_done /\ book_path /\ fx.in.chosen # NoMatch) =>
        LET stats == fx.out.stats
        IN  /\ fx.out.error = ""
            /\ stats["bookmoves"] = TheBookLine.bookmoves
            /\ stats["positions"] = TheBookLine.positions
            /\ stats["chosen"] =
                  IF fx.in.chosen = <<"resign">> THEN <<"resign">>
                  ELSE parse_position(CLI(board_size), fx.in.chosen)
            /\ fx.out.move_list = <<[pos |-> stats["chosen"], is_book |-> TRUE]>>
            /\ fx.out.warnings = <<>>

C17_Witness ==
    /\ parse_returned
    /\ book_path
    /\ fx.in.banner
    /\ fx.in.chosen = D4
    /\ fx.out.stats["chosen"] = <<"d", "p">>
    /\ Len(fx.out.move_list) = 1

(***************************************************************************)
(* C18: on every board size and for every coordinate on the board,         *)
(* parse_position undoes convert_position (and the move add_move writes),  *)
(* and convert_position undoes parse_position up to the case of the      *)
(* column letter; the engine's "pass" becomes the empty record coordinate, *)
(* the empty record coordinate becomes "pass", and a coordinate on the     *)
(* board never becomes "pass".                                             *)
(***************************************************************************)
on_board == fx.in.pos \in RecordCoords(fx.in.size)

lowered(pos) == <<lower(pos[1]), pos[2]>>

C19_KeyOfCommandsAndTime ==
    fx.fn = "ckpt_fn" /\ fx.done
      => /\ (fx.out[1].fed = fx.out[2].fed)
                <=> (fx.in[1].history = fx.in[2].history)
         /\ (fx.out[1].key = fx.out[2].key)
                <=> /\ fx.in[1].history = fx.in[2].history
                    /\ fx.in[1].seconds = fx.in[2].seconds

C19_Witness ==
    /\ fx.fn = "ckpt_fn" /\ fx.done
    /\ fx.in[1].history = <<play("black", <<"d", "s">>), play("white", <<>>)>>
    /\ fx.in[2].history = <<play("white", <<>>), play("black", <<"d", "s">>)>>
    /\ fx.in[1].seconds = 11 /\ fx.in[2].seconds = 11
    /\ fx.out[1].fed = <<"b", "d", "1", "w", "p", "a", "s", "s">>
    /\ fx.out[2].fed = <<"w", "p", "a", "s", "s", "b", "d", "1">>
    /\ fx.out[1].key # fx.out[2].key

(***************************************************************************)
(* C20: stop() never raises, wherever the handle is in its life.  The      *)
(* first call after start() tells both readers to stop, then tries to      *)
(* write quit, then terminates the process, in that order, and passes over *)
(* the errors of a process already dead; any further call, and a call      *)
(* before start(), does nothing.                                           *)
(***************************************************************************)
C20_StopIsSafe ==
    halt.calls > 0
      => /\ halt.raised = ""
         /\ halt.was = "proc"
              => /\ halt.log \in {<<"stop stdout", "stop stderr", q, terminate>> :
                                    q \in {"quit", "quit: IOError passed"}}
                 /\ \A s \in Streams : stopped[s]
                 /\ p = "None"
         /\ halt.was = "None" => halt.log = <<>>

(***************************************************************************)
(* C21: in a full run, whatever step of the two passes raises, stop() of   *)
(* the handle is still executed and after it the record, with every        *)
(* annotation added so far, is written to the output file: a run in which  *)
(* something raised ends with the file holding the record as it stands in  *)
(* memory.                                                                 *)
(***************************************************************************)
run_over == fx.fn = "main" /\ fx.at \in {"end", "crashed"}

C21_StopThenWrite ==
    run_over /\ fx.raised
      => /\ fx.stops >= 1
         /\ p = "None"
         /\ fx.at = "end"
         /\ fx.file = fx.sgf

(***************************************************************************)
(* C22: record() leaves the cursor where it found it, for every tree the   *)
(* expander builds and every override: every advance is matched by one     *)
(* retreat, the cursor is back at its starting position when record(tree)  *)
(* is over, and it stands at a node's own position when that node is       *)
(* annotated and when the walk goes on from it.                            *)
(***************************************************************************)
record_called ==
    \/ vpc = "returned" /\ DOMAIN tree # {}
    \/ vpc = "raised" /\ rec.error # ""

\* how far the cursor is from where record(tree) found it, after k steps
depth(ops, k) ==
    Cardinality({j \in 1..k : ops[j].op = "advance"})
      - Cardinality({j \in 1..k : ops[j].op = "previous"})

paired(ops) ==
    /\ depth(ops, Len(ops)) = 0
    /\ \A k \in 1..Len(ops) :
          /\ depth(ops, k) >= 0
          /\ ops[k].op = "annotate" => depth(ops, k) = Len(ops[k].at)
          /\ ops[k].op = "advance" => depth(ops, k - 1) = Len(ops[k].at)

C22_CursorRestored == record_called => rec.error = "" /\ paired(rec.ops)

(***************************************************************************)
(* C23: with a book-move count in the root stats, or with no candidate at  *)
(* the root, do_variations returns at once: nothing is sent to the engine, *)
(* History stays as it is, no node is made, nothing is annotated and the   *)
(* cursor does not move.                                                   *)
(***************************************************************************)
book_or_empty == va.stats.bookmoves \/ Len(va.move_list) = 0

C23_EarlyReturn ==
    [][vpc = "call" /\ book_or_empty
         => /\ vpc' = "returned"
            /\ UNCHANGED <<history, stdin, sent, tree, leaves, rec>>]_vars

C23_Witness ==
    /\ vpc = "returned"
    /\ va.stats.bookmoves
    /\ va.move_list = <<CandA, CandB>>
    /\ va.N = MaxNodes
    /\ DOMAIN tree = {}
    /\ leaves = <<>>
    /\ rec = RecNone

(***************************************************************************)
(* C24: the raw weight of a candidate of an expanded node is 1 for a book  *)
(* move; otherwise the visit count at the root and the average of policy   *)
(* probability and visit count at every other node, whatever its depth.    *)
(* As the code has it, the visit count is the weight at every node where   *)
(* the side to move is the side to move at the root (the root, its         *)
(* grandchildren, ...), and the average at the nodes where the other side  *)
(* is to move.                                                             *)
(***************************************************************************)
expanded == {x \in DOMAIN tree : tree[x].explored}

average(move) == RDiv(RAdd(move.policy_prob, Rat(move.visits, 1)), Rat(2, 1))

Weights(visits_at(_)) ==
    \A x \in expanded : \A i \in 1..Len(tree[x].move_list) :
        LET move == tree[x].move_list[i]
        IN  child_prob_raw(tree[x], va.rootcolor, move) =
               IF move.is_book THEN Rat(1, 1)
               ELSE IF visits_at(x) THEN Rat(move.visits, 1)
               ELSE average(move)

AtRoot(x) == tree[x].is_root
RootSideToMove(x) == Len(x) % 2 = 0

C24_VisitsAtRootOnly == Weights(AtRoot)

C24_VisitsWhereRootSideMoves == Weights(RootSideToMove)

C24_Witness ==
    \E x \in expanded :
        /\ Len(x) = 2
        /\ tree[x].move_list = <<CandA, CandB>>
        /\ tree[Append(x, 1)].prob = RMul(tree[x].prob, Rat(3, 4))

(***************************************************************************)
(* C25: for every candidate list parse() can give, one retained candidate  *)
(* of zero visits included, expansion gives each child a reaching          *)
(* probability: the parent's, times the child's weight, over the sum of    *)
(* the weights of all the parent's candidates.  Every node's probability   *)
(* is above 0 and at most 1, and a child's is below its parent's unless    *)
(* the child is a book move.                                               *)
(***************************************************************************)
children_of(x) == {i \in 1..Len(tree[x].children) : tree[x].children[i]}

\* the expansion of the root has failed: nothing else raises before the
\* tree is there
root_expansion_raised == vpc = "raised" /\ DOMAIN tree = {}

C25_ReachingProbability ==
    /\ ~root_expansion_raised
    /\ \A x \in DOMAIN tree :
          RLess(Rat(0, 1), tree[x].prob) /\ ~RLess(Rat(1, 1), tree[x].prob)
    /\ \A x \in expanded : \A i \in children_of(x) :
          LET node == tree[x]
              child == tree[Append(x, i)]
              move == node.move_list[i]
          IN  /\ child.prob =
                    RMul(node.prob,
                         RDiv(child_prob_raw(node, va.rootcolor, move),
                              probsum(node, va.rootcolor, node.move_list)))
              /\ ~move.is_book => RLess(child.prob, node.prob)

(***************************************************************************)
(* C26: after every expansion the leaf pool holds exactly the nodes of the *)
(* tree that are not explored, each once: the children just made are in    *)
(* it, the node just expanded is not.  An explored node stays explored and *)
(* out of the pool, and the node the search takes up is never an explored  *)
(* one.                                                                    *)
(***************************************************************************)
pool == {leaves[i] : i \in 1..Len(leaves)}

PoolIsTheUnexplored ==
    DOMAIN tree # {}
      => /\ pool = {x \in DOMAIN tree : ~tree[x].explored}
         /\ Cardinality(pool) = Len(leaves)
         /\ vpc = "do_analyze" => vnode \in pool

ExploredForGood ==
    \A x \in expanded :
        /\ x \in DOMAIN tree'
        /\ tree'[x].explored
        /\ \A i \in 1..Len(leaves') : leaves'[i] # x

C26_LeafPool == []PoolIsTheUnexplored /\ [][ExploredForGood]_vars

C26_Witness ==
    /\ vpc = "loop"
    /\ vi = 2
    /\ {<<>>, <<1>>, <<1, 2>>} \subseteq DOMAIN tree
    /\ tree[<<>>].explored /\ tree[<<1>>].explored /\ tree[<<1, 2>>].explored
    /\ leaves = << <<2>>, <<1, 1>>, <<1, 2, 1>> >>

(***************************************************************************)
(* C27: a turn of the search loop is neutral for the engine: after it, on  *)
(* a cache hit and on a cache miss alike, the engine's own board and the   *)
(* client's History are those that held when the turn began.  As the code  *)
(* has it, History is restored in both cases and the engine's board is     *)
(* left alone on a hit; on a miss the board is left at the position        *)
(* analysed with the engine's own move played on it.                       *)
(***************************************************************************)
turn_over == vpc = "do_analyze" /\ vpc' = "loop"

principal_unexplored(id) ==
    /\ Len(tree[id].children) >= 1
    /\ tree[id].children[1]
    /\ ~tree[Append(id, 1)].explored
    /\ ~tree[id].move_list[1].is_book

steps(ops, op) == Cardinality({k \in 1..Len(ops) : ops[k].op = op})

bounded_prefix(node, override) ==
    LET w == pv_walk(node, override)
        pv == node.move_list[1].pv
        forward == steps(w.ops, "advance")
    IN  /\ w.error = ""
        /\ forward <= Len(pv)
        /\ override = NoOverride /\ Len(pv) > 0 => forward >= 1
        /\ steps(w.ops, "previous") = forward
        /\ steps(w.ops, "annotate") = 0
        /\ \A k \in 1..Len(w.ops) :
              (w.ops[k].op = "advance") = (k <= forward)

C28_PvPrefixBounded ==
    record_called
      => \A id \in DOMAIN tree :
           principal_unexplored(id) => bounded_prefix(tree[id], va.num_to_show)

(***************************************************************************)
(* C29: a reader loop is ended only by a stop request or by its stream     *)
(* being closed, never by an I/O error or an empty read; the stopped flag  *)
(* only ever goes from false to true; and once stop() has signalled the    *)
(* reader and the engine process has exited, the reader's loop ends.       *)
(***************************************************************************)
running(s) == rd[s] \in {"inline", "bg"}

EndedByStopOrClose ==
    \A s \in Streams :
       running(s) /\ rd'[s] = "ended" => stopped[s] \/ fd_closed(s)

StoppedOneWay == \A s \in Streams : stopped[s] => stopped'[s]

C29_ReaderLoopEnds ==
    /\ [][EndedByStopOrClose]_vars
    /\ [][StoppedOneWay]_vars
    /\ \A s \in Streams :
          [](stopped[s] /\ halt.exited => <>(~running(s)))

C29_Witness ==
    /\ halt.was = "proc"
    /\ halt.raised = ""
    /\ halt.exited
    /\ \A s \in Streams : stopped[s] /\ rd[s] = "ended"
    /\ queue["stdout"] # <<>>

(***************************************************************************)
(* C30: replaying an empty History succeeds trivially: go_to_position()    *)
(* with no move in History, hence an expected count of 0, returns without  *)
(* the engine having to print any success line, so the replay step of      *)
(* do_analyze on the empty position does not time out.                     *)
(***************************************************************************)
empty_replay_over ==
    /\ last.status # "none"
    /\ last.cmd = "play"
    /\ last.expected = 0

C30_EmptyReplayReturns ==
    empty_replay_over => last.status = "returned" /\ last.tries = 0

(***************************************************************************)
(* C31: analyze() always terminates: whatever the engine prints after      *)
(* genmove was written (it finishes, it goes silent, or it reports status  *)
(* updates without ever printing the finished marker), the polling loop    *)
(* is left after a bounded number of polls and analyze() goes on to the    *)
(* final drain and parse.  As the code has it, the count of polls starts   *)
(* again at every status update: the loop is left once the engine has      *)
(* finished or has reported nothing for 20 + 2 * seconds_per_search polls, *)
(* and goes on for as long as updates keep coming.                         *)
(***************************************************************************)
polling == pc \in {"an_drain_out", "an_drain_err"}

parsed == pc = "idle" /\ res # "none"

leaves_polling == polling /\ ~polling'

hit_path == cpc = "load"

C32_HitReadsCompleteFile ==
    hit_path => pickle_complete(files[ckpt_fn(history, cur.seconds)])

====
